---------------------------- MODULE Spec2Model ----------------------------
(***************************************************************************)
(* Model of pyrad.proc.process_spectra.process_spectra_point: the point-of- *)
(* interest accumulator that extracts, volume after volume, the spectra at  *)
(* one fixed point and appends them to a growing time series.               *)
(*                                                                          *)
(* Units: angles in tenths of a degree, ranges in metres, times in quarters *)
(* of a second (TicksPerSecond).                                            *)
(* A field array [ray, 1, pulse] of the record is a sequence of rows, each  *)
(* row a sequence of cells; the gate axis of the record has length 1        *)
(* (ngates = 1) and is left implicit.  A cell is a number, Masked for a     *)
(* masked cell.                                                             *)
(***************************************************************************)
EXTENDS Integers, Sequences, FiniteSets, TLC

VARIABLES
    dscfg,        \* the data set configuration dictionary, kept across calls
    call,         \* the last call: its procstatus and what its scan held
    result,       \* what the last call returned (or that it raised)
    appended,     \* history: what each call that reached the append supplied
    accepted,     \* history: number of calls whose scan was within tolerance
    selected,     \* the ray and bin the last call selected, and their distances
    again,        \* the last call is a finalize call that follows a finalize call
    intact,       \* the last call left its scan as it was given
    flight,       \* the processing calls under way, statement by statement
    product,      \* what the product generator made of the last dataset
    returned      \* the record as the last successful processing call returned it

vars == <<dscfg, call, result, appended, accepted, selected, again, intact,
          flight, product, returned>>

(***************************************************************************)
(* Bounds of the model.                                                     *)
(***************************************************************************)
MaxRows   == 3     \* calls that reach the append, per run
MaxPulses == 2     \* largest npulses_max of an incoming scan

(***************************************************************************)
(* Values.                                                                  *)
(***************************************************************************)
Masked  == -1
NoneVal == [kind |-> "None"]
Raised(why) == [kind |-> "raise", error |-> why]

IsNone(v) == v = NoneVal

\* F(value), with the value computed once
Bind(value, F(_)) == CHOOSE r \in {F(x) : x \in {value}} : TRUE

Abs(x) == IF x < 0 THEN -x ELSE x

Max(a, b) == IF a >= b THEN a ELSE b

SeqMin(s) == CHOOSE m \in {s[i] : i \in DOMAIN s} : \A i \in DOMAIN s : m <= s[i]

\* np.argmin: the first index of the minimum
ArgMin(s) == CHOOSE i \in DOMAIN s :
                 /\ \A k \in DOMAIN s : s[i] <= s[k]
                 /\ \A k \in DOMAIN s : k < i => s[k] > s[i]


(***************************************************************************)
(* dict access: d[k] raises KeyError when k is absent, d.get(k, default).   *)
(***************************************************************************)
Has(d, k) == k \in DOMAIN d

Get(d, k, default) == IF Has(d, k) THEN d[k] ELSE default

(***************************************************************************)
(* The incoming scan (a pyart spectra object) as far as the function reads  *)
(* it.  fields[f][ray][gate] is the row of npulses_max cells of one bin;    *)
(* Doppler_velocity/Doppler_frequency are None or [data |-> [ray] -> row].  *)
(***************************************************************************)
FieldNo(f) == IF f = "sPhh" THEN 1 ELSE 2

\* The cell of volume `seed` at [ray, gate, pulse] of field f: every cell of
\* every volume is a different number; odd pulses of the second field are
\* masked in the source (masked values are permitted in a scan).
CellValue(seed, f, ray, gate, pulse) ==
    IF FieldNo(f) = 2 /\ pulse % 2 = 1
    THEN Masked
    ELSE FieldNo(f) * 10000 + seed * 1000 + ray * 100 + gate * 10 + pulse

FieldArray(seed, f, npulses, rays, gates) ==
    [ray \in rays |-> [gate \in gates |->
        [pulse \in 1..npulses |-> CellValue(seed, f, ray, gate, pulse)]]]

DopplerArray(seed, which, npulses, rays) ==
    [data |-> [ray \in rays |->
        [pulse \in 1..npulses |-> which * 10000 + seed * 1000 + ray * 100 + pulse]]]

\* The resolution of a time: a date or a time value counts quarter seconds
TicksPerSecond == 4

\* geom: [azimuth, elevation, range]; seed: the volume time, which also
\* makes the data of different volumes different.
MkScan(geom, seed, npulses, present, hasVel, hasFreq, lon0) ==
    [longitude |-> lon0, latitude |-> 0, altitude |-> 400,
     azimuth |-> geom.azimuth, elevation |-> geom.elevation,
     range |-> geom.range,
     time |-> [units |-> 1000,
               data |-> [ray \in DOMAIN geom.azimuth |->
                            TicksPerSecond * (60 * seed + ray)]],
     npulses_max |-> npulses,
     fields |-> [f \in present |->
                    FieldArray(seed, f, npulses, DOMAIN geom.azimuth,
                               DOMAIN geom.range)],
     Doppler_velocity |->
         IF hasVel THEN DopplerArray(seed, 3, npulses, DOMAIN geom.azimuth)
         ELSE NoneVal,
     Doppler_frequency |->
         IF hasFreq THEN DopplerArray(seed, 4, npulses, DOMAIN geom.azimuth)
         ELSE NoneVal]

(***************************************************************************)
(* Library calls (netCDF4, pyart).  num2date adds the value to the epoch of *)
(* the unit string; make_time_unit_str makes the date the epoch, written    *)
(* as "seconds since %Y-%m-%dT%H:%M:%SZ": the format has no fraction of a   *)
(* second, so the epoch is the date cut to the whole second.  The pyart     *)
(* projections are outside this repository: they are modelled on a plane,   *)
(* as deterministic functions of the same arguments that invert each other. *)
(***************************************************************************)
num2date(value, units) == units + value

make_time_unit_str(date) == date - (date % TicksPerSecond)

total_seconds(a, b) == a - b

geographic_to_cartesian(lon, lat, lon_0, lat_0) == <<lon - lon_0, lat - lat_0>>

cartesian_to_geographic(x, y, lon_0, lat_0) == <<lon_0 + x, lat_0 + y>>

\* (ranges in km, angles) -> (x, y, z)
antenna_to_cartesian(r_km, az, el) == <<r_km * az, r_km * (900 - az), r_km * el>>

\* (x, y, z) -> (r in m, az, el)
cartesian_to_antenna(x, y, z) ==
    LET r_km == (x + y) \div 900
    IN  IF r_km = 0 THEN <<0, 0, 0>>
        ELSE <<1000 * r_km, x \div r_km, z \div r_km>>

(***************************************************************************)
(* numpy on the [row, pulse] arrays of the record.                          *)
(***************************************************************************)
\* np.ma.masked_all((npulses,)): one row, every cell masked
masked_row(npulses) == [p \in 1..npulses |-> Masked]

\* np.size: 0 for np.array([]) and for an array without rows
np_size(data) == IF Len(data) = 0 THEN 0 ELSE Len(data) * Len(data[1])

Width(data) == IF Len(data) = 0 THEN 0 ELSE Len(data[1])

\* np.ma.append(data, row, axis=0): the other axes must agree
append_ok(data, row) == Width(data) = Len(row)

\* (mutant) the tail of the row is zero, not masked
pad_row_zeros(row, width) ==
    [p \in 1..width |-> IF p <= Len(row) THEN row[p] ELSE 0]

\* aux[0, 0, 0:n] = row, for aux = masked_all of the given width
pad_row(row, width) ==
    [p \in 1..width |-> IF p <= Len(row) THEN row[p] ELSE Masked]

\* aux[0:nrows, :, 0:ncols] = data broadcasts data when it has one row or
\* one column, and fails for any other mismatch of shape
slice_ok(data, nrows, ncols) ==
    /\ Len(data) = nrows \/ Len(data) = 1
    /\ Width(data) = ncols \/ Width(data) = 1

\* (mutant) the rows so far are not copied into the new buffer
grow_rows_lose(data, row, nrays, old_npulses, new_npulses) ==
    [i \in 1..nrays |->
        IF i = nrays THEN row ELSE [p \in 1..new_npulses |-> Masked]]

\* (mutant) the new buffer starts as zeros, not masked
grow_rows_zeros(data, row, nrays, old_npulses, new_npulses) ==
    [i \in 1..nrays |->
        IF i = nrays
        THEN row
        ELSE [p \in 1..new_npulses |-> IF p <= old_npulses THEN data[i][p] ELSE 0]]

\* The wider branch: a buffer of nrays rows of new_npulses masked cells, the
\* rows so far copied into its first old_npulses columns, the new row last
grow_rows(data, row, nrays, old_npulses, new_npulses) ==
    [i \in 1..nrays |->
        IF i = nrays
        THEN row
        ELSE [p \in 1..new_npulses |->
                 IF p <= old_npulses
                 THEN data[IF Len(data) = 1 THEN 1 ELSE i]
                          [IF Width(data) = 1 THEN 1 ELSE p]
                 ELSE Masked]]

\* Put one row of psr_npulses cells in a [row, pulse] array of the record,
\* whose width so far is poi_npulses.  [ok, data]: ok is FALSE when numpy
\* raises (the shapes do not fit), and the array is then left as it was.
put_data(data, row, poi_npulses, psr_npulses, nrays) ==
    IF np_size(data) = 0
    THEN [ok |-> Len(row) = poi_npulses,
          data |-> IF Len(row) = poi_npulses THEN <<row>> ELSE data]
    ELSE IF poi_npulses = psr_npulses
    THEN [ok |-> append_ok(data, row),
          data |-> IF append_ok(data, row) THEN Append(data, row) ELSE data]
    ELSE IF psr_npulses < poi_npulses
    THEN LET poi_data_aux == pad_row(row, poi_npulses)
         IN  [ok |-> append_ok(data, poi_data_aux),
              data |-> IF append_ok(data, poi_data_aux)
                       THEN Append(data, poi_data_aux) ELSE data]
    ELSE [ok |-> slice_ok(data, nrays - 1, poi_npulses),
          data |-> IF slice_ok(data, nrays - 1, poi_npulses)
                   THEN grow_rows(data, row, nrays, poi_npulses, psr_npulses)
                   ELSE data]

\* The row of one field for the selected bin, all masked when the scan does
\* not have the field
poi_data_of(psr, field_name, ind_ray, ind_rng) ==
    IF field_name \notin DOMAIN psr.fields
    THEN masked_row(psr.npulses_max)
    ELSE psr.fields[field_name][ind_ray][ind_rng]

\* The loop over the configured fields, from field number k on.  It stops at
\* the first field numpy raises for; the fields before it stay updated.
RECURSIVE put_fields(_, _, _, _, _, _)
put_fields(psr_poi, psr, field_names, k, ind_ray, ind_rng) ==
    IF k > Len(field_names)
    THEN [ok |-> TRUE, psr_poi |-> psr_poi]
    ELSE LET field_name == field_names[k]
         IN  Bind(put_data(psr_poi.fields[field_name],
                           poi_data_of(psr, field_name, ind_ray, ind_rng),
                           psr_poi.npulses_max, psr.npulses_max, psr_poi.nrays),
                  LAMBDA put :
                      IF put.ok
                      THEN put_fields([psr_poi EXCEPT !.fields[field_name] = put.data],
                                      psr, field_names, k + 1, ind_ray, ind_rng)
                      ELSE [ok |-> FALSE, psr_poi |-> psr_poi])

\* One Doppler axis of the record (None when the record does not track it).
\* A scan without the axis makes the subscript of None raise.
put_Doppler(axis, psr_axis, ind_ray, poi_npulses, psr_npulses, nrays) ==
    IF IsNone(axis)
    THEN [ok |-> TRUE, axis |-> axis]
    ELSE IF IsNone(psr_axis)
    THEN [ok |-> FALSE, axis |-> axis]
    ELSE Bind(put_data(axis.data, psr_axis.data[ind_ray],
                       poi_npulses, psr_npulses, nrays),
              LAMBDA put : [ok |-> put.ok, axis |-> [data |-> put.data]])

\* (mutant) the width of the record follows the last scan
new_npulses_max_last(poi_npulses, psr_npulses) == psr_npulses

\* (mutant) the width of the record is never updated
new_npulses_max_kept(poi_npulses, psr_npulses) == poi_npulses

new_npulses_max(poi_npulses, psr_npulses) == Max(poi_npulses, psr_npulses)

(***************************************************************************)
(* process_spectra_point, part by part.                                     *)
(***************************************************************************)
\* The names of the fields of the data set, in the order of dscfg['datatype']
field_names_of(cfg) == cfg.datatype

\* The radar index of the data set (first radar)
ind_rad_of(cfg) == 1

\* The point in antenna and in geographic coordinates, and the tolerances:
\* the local variables the two branches of `if latlon` bind.  The latlon
\* branch binds latlon_tol and alt_tol and none of azi_tol, ele_tol, rng_tol.
\* With truealt off, the altitude is derived from the configured elevation
\* and the ground range (on the plane of the projections above).
resolve_point(cfg, psr) ==
    LET truealt == Get(cfg, "truealt", TRUE)
        latlon  == Get(cfg, "latlon", FALSE)
    IN  IF latlon
        THEN IF ~Has(cfg, "lon") \/ ~Has(cfg, "lat")
             THEN Raised("KeyError")
             ELSE IF ~truealt /\ ~Has(cfg, "ele")
             THEN Raised("KeyError")
             ELSE
             LET lon == cfg.lon
                 lat == cfg.lat
                 alt == Get(cfg, "alt", 0)
                 xy  == geographic_to_cartesian(lon, lat, psr.longitude, psr.latitude)
                 r_km == (xy[1] + xy[2]) \div 900
                 alt_psr == IF ~truealt
                            THEN psr.altitude + r_km * cfg.ele
                            ELSE alt
                 rae == cartesian_to_antenna(xy[1], xy[2], alt_psr - psr.altitude)
             IN  [kind |-> "ok", r |-> rae[1], az |-> rae[2], el |-> rae[3],
                  lon |-> lon, lat |-> lat, alt |-> alt,
                  latlon_tol |-> Get(cfg, "latlonTol", 1),
                  alt_tol |-> Get(cfg, "altTol", 100)]
        ELSE IF ~Has(cfg, "rng") \/ ~Has(cfg, "azi") \/ ~Has(cfg, "ele")
             THEN Raised("KeyError")
             ELSE
             LET r  == cfg.rng
                 az == cfg.azi
                 el == cfg.ele
                 xyz == antenna_to_cartesian(r \div 1000, az, el)
                 lonlat == cartesian_to_geographic(xyz[1], xyz[2],
                                                   psr.longitude, psr.latitude)
             IN  [kind |-> "ok", r |-> r, az |-> az, el |-> el,
                  azi_tol |-> Get(cfg, "AziTol", 5),
                  ele_tol |-> Get(cfg, "EleTol", 5),
                  rng_tol |-> Get(cfg, "RngTol", 50),
                  lon |-> lonlat[1], lat |-> lonlat[2], alt |-> xyz[3]]

\* np.abs(axis - value), per element
\* (mutant) the difference of two angles is taken round the circle
abs_diff_circular(axis, value) ==
    [i \in DOMAIN axis |->
        IF Abs(axis[i] - value) <= 3600 - Abs(axis[i] - value)
        THEN Abs(axis[i] - value)
        ELSE 3600 - Abs(axis[i] - value)]

abs_diff(axis, value) == [i \in DOMAIN axis |-> Abs(axis[i] - value)]

\* (mutant) the tolerance is not enforced
exceeds_never(d, tol) == FALSE

\* `if d > tol`: the point is farther from every ray (bin) than tolerated
exceeds(d, tol) == d > tol

\* (mutant) the ray nearest in azimuth, whatever its elevation
nearest_ray_azimuth(psr, az, el) == ArgMin(abs_diff(psr.azimuth, az))

\* The ray minimizing the sum of the azimuth and elevation differences
nearest_ray(psr, az, el) ==
    ArgMin([i \in DOMAIN psr.azimuth |->
               Abs(psr.azimuth[i] - az) + Abs(psr.elevation[i] - el)])

nearest_bin(psr, r) == ArgMin(abs_diff(psr.range, r))

\* The three tolerance checks and the selection of the bin: "none" when a
\* check returns None, None; "raise" when a tolerance is an unbound local.
locate(psr, loc) ==
    LET d_az == SeqMin(abs_diff(psr.azimuth, loc.az))
        d_el == SeqMin(abs_diff(psr.elevation, loc.el))
        d_r  == SeqMin(abs_diff(psr.range, loc.r))
    IN  IF ~Has(loc, "azi_tol") THEN Raised("UnboundLocalError")
        ELSE IF exceeds(d_az, loc.azi_tol) THEN [kind |-> "none"]
        ELSE IF ~Has(loc, "ele_tol") THEN Raised("UnboundLocalError")
        ELSE IF exceeds(d_el, loc.ele_tol) THEN [kind |-> "none"]
        ELSE IF ~Has(loc, "rng_tol") THEN Raised("UnboundLocalError")
        ELSE IF exceeds(d_r, loc.rng_tol) THEN [kind |-> "none"]
        ELSE [kind |-> "ok",
              ind_ray |-> nearest_ray(psr, loc.az, loc.el),
              ind_rng |-> nearest_bin(psr, loc.r)]

\* `if not dscfg['initialized']`: the empty record, a copy of the scan with
\* its per-ray attributes emptied.  Copying a configured field the scan does
\* not have raises KeyError.
init_ok(psr, field_names) ==
    \A k \in DOMAIN field_names : field_names[k] \in DOMAIN psr.fields

\* (mutant) the fields of the scan stay in the copy
init_fields_kept(psr, field_names) ==
    [f \in DOMAIN psr.fields \cup {field_names[k] : k \in DOMAIN field_names} |->
        << >>]

\* `psr_poi.fields = dict()` and the loop that adds the configured fields,
\* each with no data
init_fields(psr, field_names) ==
    [f \in {field_names[k] : k \in DOMAIN field_names} |-> << >>]

init_poi(psr, loc, time_poi, field_names) ==
    [longitude |-> psr.longitude, latitude |-> psr.latitude,
     altitude |-> psr.altitude,
     fields |-> init_fields(psr, field_names),
     range |-> <<loc.r>>,
     ngates |-> 1,
     time |-> [units |-> make_time_unit_str(time_poi), data |-> << >>],
     scan_type |-> "poi_time_series",
     nsweeps |-> 1,
     fixed_angle |-> <<loc.az>>,
     sweep_end_ray_index |-> <<-1>>,
     rays_per_sweep |-> <<0>>,
     azimuth |-> << >>,
     elevation |-> << >>,
     nrays |-> 0,
     gate_longitude |-> << >>,
     gate_latitude |-> << >>,
     gate_altitude |-> << >>,
     Doppler_velocity |->
         IF IsNone(psr.Doppler_velocity) THEN NoneVal ELSE [data |-> << >>],
     Doppler_frequency |->
         IF IsNone(psr.Doppler_frequency) THEN NoneVal ELSE [data |-> << >>],
     npulses_max |-> psr.npulses_max]

\* (mutant) the elevation of the new ray is not appended
append_ray_no_elevation(psr_poi, loc, time_poi) ==
    [psr_poi EXCEPT
        !.time.data = Append(@, total_seconds(time_poi, num2date(0, psr_poi.time.units))),
        !.sweep_end_ray_index[1] = @ + 1,
        !.rays_per_sweep[1] = @ + 1,
        !.nrays = @ + 1,
        !.azimuth = Append(@, loc.az)]

\* (mutant) the time of the new ray is put where it keeps the time axis
\* ascending
append_ray_sorted(psr_poi, loc, time_poi) ==
    LET start_time == num2date(0, psr_poi.time.units)
        nrays == psr_poi.nrays + 1
        t == total_seconds(time_poi, start_time)
        before == SelectSeq(psr_poi.time.data, LAMBDA x : x <= t)
        after == SelectSeq(psr_poi.time.data, LAMBDA x : x > t)
    IN  [psr_poi EXCEPT
            !.time.data = before \o <<t>> \o after,
            !.sweep_end_ray_index[1] = @ + 1,
            !.rays_per_sweep[1] = @ + 1,
            !.nrays = nrays,
            !.azimuth = Append(@, loc.az),
            !.elevation = Append(@, loc.el),
            !.gate_longitude = [i \in 1..nrays |-> <<loc.lon>>],
            !.gate_latitude = [i \in 1..nrays |-> <<loc.lat>>],
            !.gate_altitude = [i \in 1..nrays |-> <<loc.alt>>]]

\* (mutant) the end of the sweep stays where the first ray put it
append_ray_sweep_end_kept(psr_poi, loc, time_poi) ==
    LET start_time == num2date(0, psr_poi.time.units)
        nrays == psr_poi.nrays + 1
    IN  [psr_poi EXCEPT
            !.time.data = Append(@, total_seconds(time_poi, start_time)),
            !.sweep_end_ray_index[1] = 0,
            !.rays_per_sweep[1] = @ + 1,
            !.nrays = nrays,
            !.azimuth = Append(@, loc.az),
            !.elevation = Append(@, loc.el),
            !.gate_longitude = [i \in 1..nrays |-> <<loc.lon>>],
            !.gate_latitude = [i \in 1..nrays |-> <<loc.lat>>],
            !.gate_altitude = [i \in 1..nrays |-> <<loc.alt>>]]

\* (mutant) the new ray gets the two angles the other way round
append_ray_angles_swapped(psr_poi, loc, time_poi) ==
    LET start_time == num2date(0, psr_poi.time.units)
        nrays == psr_poi.nrays + 1
    IN  [psr_poi EXCEPT
            !.time.data = Append(@, total_seconds(time_poi, start_time)),
            !.sweep_end_ray_index[1] = @ + 1,
            !.rays_per_sweep[1] = @ + 1,
            !.nrays = nrays,
            !.azimuth = Append(@, loc.el),
            !.elevation = Append(@, loc.az),
            !.gate_longitude = [i \in 1..nrays |-> <<loc.lon>>],
            !.gate_latitude = [i \in 1..nrays |-> <<loc.lat>>],
            !.gate_altitude = [i \in 1..nrays |-> <<loc.alt>>]]

\* The time, the angles and the position grids of the new ray
append_ray(psr_poi, loc, time_poi) ==
    LET start_time == num2date(0, psr_poi.time.units)
        nrays == psr_poi.nrays + 1
    IN  [psr_poi EXCEPT
            !.time.data = Append(@, total_seconds(time_poi, start_time)),
            !.sweep_end_ray_index[1] = @ + 1,
            !.rays_per_sweep[1] = @ + 1,
            !.nrays = nrays,
            !.azimuth = Append(@, loc.az),
            !.elevation = Append(@, loc.el),
            !.gate_longitude = [i \in 1..nrays |-> <<loc.lon>>],
            !.gate_latitude = [i \in 1..nrays |-> <<loc.lat>>],
            !.gate_altitude = [i \in 1..nrays |-> <<loc.alt>>]]

\* The statements of append_ray one by one, for calls that do not run to
\* completion before another call starts.
\* np.append(psr_poi.time['data'], (time_poi - start_time).total_seconds())
time_appended(psr_poi, time_poi) ==
    Append(psr_poi.time.data,
           total_seconds(time_poi, num2date(0, psr_poi.time.units)))

\* (mutant) the new time axis is not stored
time_written_dropped(psr_poi, data) == psr_poi

\* psr_poi.time['data'] = <the array np.append returned>
time_written(psr_poi, data) == [psr_poi EXCEPT !.time.data = data]

\* sweep_end_ray_index += 1, rays_per_sweep += 1, nrays += 1
ray_counted(psr_poi) ==
    [psr_poi EXCEPT !.sweep_end_ray_index[1] = @ + 1,
                    !.rays_per_sweep[1] = @ + 1,
                    !.nrays = @ + 1]

\* The angles and the position grids of the new ray
ray_pointed(psr_poi, loc) ==
    [psr_poi EXCEPT
        !.azimuth = Append(@, loc.az),
        !.elevation = Append(@, loc.el),
        !.gate_longitude = [i \in 1..psr_poi.nrays |-> <<loc.lon>>],
        !.gate_latitude = [i \in 1..psr_poi.nrays |-> <<loc.lat>>],
        !.gate_altitude = [i \in 1..psr_poi.nrays |-> <<loc.alt>>]]

\* The field loop, the two Doppler axes and the update of npulses_max, on
\* the record that has the time and the angles of the new ray.  The record
\* is changed in place, so when a statement raises, what the statements
\* before it did stays: [ok, psr_poi].
put_rows(psr_poi, psr, ind_ray, ind_rng, field_names) ==
    Bind(put_fields(psr_poi, psr, field_names, 1, ind_ray, ind_rng),
         LAMBDA pf :
    IF ~pf.ok THEN [ok |-> FALSE, psr_poi |-> pf.psr_poi]
    ELSE
    Bind(put_Doppler(pf.psr_poi.Doppler_velocity, psr.Doppler_velocity, ind_ray,
                     pf.psr_poi.npulses_max, psr.npulses_max, pf.psr_poi.nrays),
         LAMBDA dv :
    IF ~dv.ok THEN [ok |-> FALSE, psr_poi |-> pf.psr_poi]
    ELSE
    Bind(put_Doppler(pf.psr_poi.Doppler_frequency, psr.Doppler_frequency, ind_ray,
                     pf.psr_poi.npulses_max, psr.npulses_max, pf.psr_poi.nrays),
         LAMBDA df :
    IF ~df.ok
    THEN [ok |-> FALSE,
          psr_poi |-> [pf.psr_poi EXCEPT !.Doppler_velocity = dv.axis]]
    ELSE [ok |-> TRUE,
          psr_poi |-> [pf.psr_poi EXCEPT
                          !.Doppler_velocity = dv.axis,
                          !.Doppler_frequency = df.axis,
                          !.npulses_max = new_npulses_max(@, psr.npulses_max)]])))

\* Everything from `psr_poi = dscfg['global_data']['psr_poi']` to the update
\* of npulses_max
append_row(psr_poi, psr, loc, ind_ray, ind_rng, time_poi, field_names) ==
    put_rows(append_ray(psr_poi, loc, time_poi), psr, ind_ray, ind_rng,
             field_names)

\* (mutant) every dataset is handed out as not final
dataset_not_final(cfg, final) ==
    [kind |-> "dataset",
     radar_out |-> cfg.global_data.psr_poi,
     point_coordinates_WGS84_lon_lat_alt |->
         cfg.global_data.point_coordinates_WGS84_lon_lat_alt,
     antenna_coordinates_az_el_r |-> cfg.global_data.antenna_coordinates_az_el_r,
     final |-> FALSE,
     ind_rad |-> ind_rad_of(cfg)]

\* new_dataset, ind_rad
dataset(cfg, final) ==
    [kind |-> "dataset",
     radar_out |-> cfg.global_data.psr_poi,
     point_coordinates_WGS84_lon_lat_alt |->
         cfg.global_data.point_coordinates_WGS84_lon_lat_alt,
     antenna_coordinates_az_el_r |-> cfg.global_data.antenna_coordinates_az_el_r,
     final |-> final,
     ind_rad |-> ind_rad_of(cfg)]

\* What a call leaves: the configuration dictionary, the value returned (or
\* the exception), whether the call reached the append, the indices
\* ind_ray, ind_rng the call selected (0 when it selected none), and the scan
\* of the call as the call leaves it (None when the call read no scan)
Outcome(cfg, ret, reached) ==
    [dscfg |-> cfg, ret |-> ret, reached |-> reached, ind_ray |-> 0, ind_rng |-> 0,
     psr |-> NoneVal]

\* The outcome of a call that read the scan
Scanned(out, psr) == [out EXCEPT !.psr = psr]

\* The outcome of a call that selected the bin
Selected(out, bin) ==
    [out EXCEPT !.ind_ray = bin.ind_ray, !.ind_rng = bin.ind_rng]

\* (mutant) the finalize call ends the run it has emitted
post_process_once(cfg) ==
    IF cfg.initialized = 0
    THEN Outcome(cfg, NoneVal, FALSE)
    ELSE Outcome([cfg EXCEPT !.initialized = 0], dataset(cfg, TRUE), FALSE)

\* procstatus == 2
post_process(cfg) ==
    IF cfg.initialized = 0
    THEN Outcome(cfg, NoneVal, FALSE)
    ELSE Outcome(cfg, dataset(cfg, TRUE), FALSE)

\* (mutant) the record is made anew by every call that found its bin
initialized_run_again(cfg, psr, loc, time_poi) ==
    [cfg EXCEPT
        !.global_data =
            [psr_poi |-> init_poi(psr, loc, time_poi, field_names_of(cfg)),
             point_coordinates_WGS84_lon_lat_alt |->
                 <<loc.lon, loc.lat, loc.alt>>,
             antenna_coordinates_az_el_r |-> <<loc.az, loc.el, loc.r>>],
        !.initialized = 1]

\* (mutant) every call that found its bin stores the coordinates of the point
\* as its scan gives them
initialized_run_moved(cfg, psr, loc, time_poi) ==
    IF cfg.initialized = 0
    THEN [cfg EXCEPT
             !.global_data =
                 [psr_poi |-> init_poi(psr, loc, time_poi, field_names_of(cfg)),
                  point_coordinates_WGS84_lon_lat_alt |->
                      <<loc.lon, loc.lat, loc.alt>>,
                  antenna_coordinates_az_el_r |-> <<loc.az, loc.el, loc.r>>],
             !.initialized = 1]
    ELSE [cfg EXCEPT
             !.global_data.point_coordinates_WGS84_lon_lat_alt =
                 <<loc.lon, loc.lat, loc.alt>>,
             !.global_data.antenna_coordinates_az_el_r = <<loc.az, loc.el, loc.r>>]

\* (mutant) an idle run that holds a record goes on with it
initialized_run_residual(cfg, psr, loc, time_poi) ==
    IF cfg.initialized = 0 /\ IsNone(cfg.global_data)
    THEN [cfg EXCEPT
             !.global_data =
                 [psr_poi |-> init_poi(psr, loc, time_poi, field_names_of(cfg)),
                  point_coordinates_WGS84_lon_lat_alt |->
                      <<loc.lon, loc.lat, loc.alt>>,
                  antenna_coordinates_az_el_r |-> <<loc.az, loc.el, loc.r>>],
             !.initialized = 1]
    ELSE [cfg EXCEPT !.initialized = 1]

\* procstatus == 1 with a scan
\* `if not dscfg['initialized']`: the configuration dictionary with the new
\* record and the coordinates of the point
initialized_run(cfg, psr, loc, time_poi) ==
    IF cfg.initialized = 0
    THEN [cfg EXCEPT
             !.global_data =
                 [psr_poi |-> init_poi(psr, loc, time_poi, field_names_of(cfg)),
                  point_coordinates_WGS84_lon_lat_alt |->
                      <<loc.lon, loc.lat, loc.alt>>,
                  antenna_coordinates_az_el_r |-> <<loc.az, loc.el, loc.r>>],
             !.initialized = 1]
    ELSE cfg

\* (mutant) the record is the scan itself: emptying the per-ray arrays of
\* the record empties those of the scan
scan_after_copy_shared(psr, psr_poi) ==
    [psr EXCEPT !.azimuth = psr_poi.azimuth,
                !.elevation = psr_poi.elevation,
                !.time = psr_poi.time,
                !.range = psr_poi.range]

\* `psr_poi = deepcopy(psr)` and `deepcopy(psr.fields[field_name])`: the
\* statements that empty and rebind the arrays of the record act on the
\* copy, and the scan keeps what it held
scan_after_copy(psr, psr_poi) == psr

\* The call once the bin is found: the record is made if the run has none,
\* and the row is appended.  The append reads the scan (the first row of an
\* array of the record is a view of the scan's array, and every later
\* statement rebinds the array of the record, none writes into it).
process_bin(cfg, psr, loc, bin) ==
    LET time_poi == num2date(psr.time.data[bin.ind_ray], psr.time.units)
        psr_left == IF cfg.initialized = 0
                    THEN scan_after_copy(
                             psr, init_poi(psr, loc, time_poi, field_names_of(cfg)))
                    ELSE psr
    IN  IF cfg.initialized = 0 /\ ~init_ok(psr, field_names_of(cfg))
        THEN Scanned(Outcome(cfg, Raised("KeyError"), FALSE), psr_left)
        ELSE
        Bind(initialized_run(cfg, psr, loc, time_poi), LAMBDA cfg1 :
        Bind(append_row(cfg1.global_data.psr_poi, psr, loc, bin.ind_ray,
                        bin.ind_rng, time_poi, field_names_of(cfg)),
             LAMBDA app :
        Bind([cfg1 EXCEPT !.global_data.psr_poi = app.psr_poi], LAMBDA cfg2 :
            IF app.ok
            THEN Scanned(Outcome(cfg2, dataset(cfg2, FALSE), TRUE), psr_left)
            ELSE Scanned(Outcome(cfg2, Raised("Error"), TRUE), psr_left))))

process_volume(cfg, psr) ==
    Bind(resolve_point(cfg, psr), LAMBDA loc :
        IF loc.kind = "raise" THEN Scanned(Outcome(cfg, loc, FALSE), psr)
        ELSE
        Bind(locate(psr, loc), LAMBDA bin :
            IF bin.kind = "raise" THEN Scanned(Outcome(cfg, bin, FALSE), psr)
            ELSE IF bin.kind = "none" THEN Scanned(Outcome(cfg, NoneVal, FALSE), psr)
            ELSE Selected(process_bin(cfg, psr, loc, bin), bin)))

\* (mutant) a call without a usable scan ends the accumulation
process_spectra_point_reset(status, cfg, rlist) ==
    IF status = 0 THEN Outcome(cfg, NoneVal, FALSE)
    ELSE IF status = 2 THEN post_process(cfg)
    ELSE IF IsNone(rlist) \/ IsNone(rlist.items[ind_rad_of(cfg)])
    THEN Outcome([cfg EXCEPT !.initialized = 0], NoneVal, FALSE)
    ELSE process_volume(cfg, rlist.items[ind_rad_of(cfg)])

\* (mutant) the initializing call starts the run afresh
process_spectra_point_setup(status, cfg, rlist) ==
    IF status = 0
    THEN Outcome([cfg EXCEPT !.initialized = 0, !.global_data = NoneVal],
                 NoneVal, FALSE)
    ELSE IF status = 2 THEN post_process(cfg)
    ELSE IF IsNone(rlist) THEN Outcome(cfg, NoneVal, FALSE)
    ELSE IF IsNone(rlist.items[ind_rad_of(cfg)]) THEN Outcome(cfg, NoneVal, FALSE)
    ELSE process_volume(cfg, rlist.items[ind_rad_of(cfg)])

process_spectra_point(status, cfg, rlist) ==
    IF status = 0 THEN Outcome(cfg, NoneVal, FALSE)
    ELSE IF status = 2 THEN post_process(cfg)
    ELSE IF IsNone(rlist) THEN Outcome(cfg, NoneVal, FALSE)
    ELSE IF IsNone(rlist.items[ind_rad_of(cfg)]) THEN Outcome(cfg, NoneVal, FALSE)
    ELSE process_volume(cfg, rlist.items[ind_rad_of(cfg)])

(***************************************************************************)
(* The other processors of the module take one scan and return one dataset. *)
(* Three of them: process_raw_spectra, process_filter_0Doppler and          *)
(* process_spectral_power (the retrievals that follow it in the module have *)
(* its statements, with another pyart function).  What pyart computes is    *)
(* kept as the call with its arguments.                                     *)
(***************************************************************************)
\* new_dataset of a processor that returns the scan it made
scan_dataset(radar_out) == [kind |-> "dataset", radar_out |-> radar_out]

\* (mutant) the processor notes in the dictionary that it has run
process_raw_spectra_noted(status, cfg, rlist) ==
    IF status # 1 THEN Outcome(cfg, NoneVal, FALSE)
    ELSE IF IsNone(rlist) THEN Outcome(cfg, NoneVal, FALSE)
    ELSE IF IsNone(rlist.items[ind_rad_of(cfg)]) THEN Outcome(cfg, NoneVal, FALSE)
    ELSE Scanned(Outcome([cfg EXCEPT !.initialized = 1],
                         scan_dataset(rlist.items[ind_rad_of(cfg)]), FALSE),
                 rlist.items[ind_rad_of(cfg)])

\* The dataset is a copy of the scan
process_raw_spectra(status, cfg, rlist) ==
    IF status # 1 THEN Outcome(cfg, NoneVal, FALSE)
    ELSE IF IsNone(rlist) THEN Outcome(cfg, NoneVal, FALSE)
    ELSE IF IsNone(rlist.items[ind_rad_of(cfg)]) THEN Outcome(cfg, NoneVal, FALSE)
    ELSE Scanned(Outcome(cfg, scan_dataset(rlist.items[ind_rad_of(cfg)]), FALSE),
                 rlist.items[ind_rad_of(cfg)])

\* The field with the cells masked whose Doppler value is within half the
\* filter width of 0, in every gate of the ray
filter_0Doppler(field, axis, filter_width) ==
    [ray \in DOMAIN field |-> [gate \in DOMAIN field[ray] |->
        [p \in DOMAIN field[ray][gate] |->
            IF 2 * axis[ray][p] >= -filter_width /\ 2 * axis[ray][p] <= filter_width
            THEN Masked
            ELSE field[ray][gate][p]]]]

\* The dataset has the configured fields the scan has, filtered; reading
\* the data of a Doppler axis the scan does not have raises TypeError
process_filter_0Doppler(status, cfg, rlist) ==
    IF status # 1 THEN Outcome(cfg, NoneVal, FALSE)
    ELSE IF IsNone(rlist) THEN Outcome(cfg, NoneVal, FALSE)
    ELSE IF IsNone(rlist.items[ind_rad_of(cfg)]) THEN Outcome(cfg, NoneVal, FALSE)
    ELSE
    LET psr == rlist.items[ind_rad_of(cfg)]
        names == field_names_of(cfg)
        axis == IF Get(cfg, "filter_units", "m/s") = "m/s"
                THEN psr.Doppler_velocity
                ELSE psr.Doppler_frequency
        kept == {names[k] : k \in DOMAIN names} \cap DOMAIN psr.fields
    IN  IF IsNone(axis)
        THEN Scanned(Outcome(cfg, Raised("TypeError"), FALSE), psr)
        ELSE Scanned(
                 Outcome(cfg,
                         scan_dataset(
                             [psr EXCEPT !.fields =
                                 [f \in kept |->
                                     filter_0Doppler(psr.fields[f], axis.data,
                                                     Get(cfg, "filter_width", 0))]]),
                         FALSE),
                 psr)

\* The names of the signal field and of the noise field: the last of each
\* kind in dscfg['datatype']; signal_field stays unbound when there is none
signal_fields(names) ==
    LET signals == {k \in DOMAIN names : names[k] \in {"ShhADU", "SvvADU"}}
        noises == {k \in DOMAIN names : names[k] \in {"NADUh", "NADUv"}}
        last(S) == CHOOSE k \in S : \A m \in S : m <= k
    IN  [bound |-> signals # {},
         signal |-> IF signals = {} THEN "" ELSE names[last(signals)],
         noise |-> IF noises = {} THEN NoneVal ELSE names[last(noises)]]

\* The dataset has the one field pyart computes of the signal field
process_spectral_power(status, cfg, rlist) ==
    IF status # 1 THEN Outcome(cfg, NoneVal, FALSE)
    ELSE IF IsNone(rlist) THEN Outcome(cfg, NoneVal, FALSE)
    ELSE IF IsNone(rlist.items[ind_rad_of(cfg)]) THEN Outcome(cfg, NoneVal, FALSE)
    ELSE
    LET psr == rlist.items[ind_rad_of(cfg)]
        names == signal_fields(field_names_of(cfg))
    IN  IF ~names.bound
        THEN Scanned(Outcome(cfg, Raised("UnboundLocalError"), FALSE), psr)
        ELSE IF names.signal \notin DOMAIN psr.fields
        THEN Scanned(Outcome(cfg, NoneVal, FALSE), psr)
        ELSE Scanned(
                 Outcome(cfg,
                         scan_dataset(
                             [psr EXCEPT !.fields =
                                 [f \in {"spectral_power"} |->
                                     [compute |-> "compute_spectral_power",
                                      signal |-> psr.fields[names.signal],
                                      noise_field |-> names.noise,
                                      units |-> Get(cfg, "units", "dBADU"),
                                      subtract_noise |->
                                          Get(cfg, "subtract_noise", FALSE),
                                      smooth_window |->
                                          Get(cfg, "smooth_window", NoneVal)]]]),
                         FALSE),
                 psr)

\* The name of the spectral reflectivity field: the last of its kind in
\* dscfg['datatype']; sdBZ_field stays unbound when there is none
sdBZ_fields(names) ==
    LET found == {k \in DOMAIN names : names[k] \in {"sdBZ", "sdBZv"}}
        last(S) == CHOOSE k \in S : \A m \in S : m <= k
    IN  [bound |-> found # {},
         sdBZ |-> IF found = {} THEN "" ELSE names[last(found)]]

\* The dataset has the one field pyart computes of the spectral reflectivity
process_Doppler_width(status, cfg, rlist) ==
    IF status # 1 THEN Outcome(cfg, NoneVal, FALSE)
    ELSE IF IsNone(rlist) THEN Outcome(cfg, NoneVal, FALSE)
    ELSE IF IsNone(rlist.items[ind_rad_of(cfg)]) THEN Outcome(cfg, NoneVal, FALSE)
    ELSE
    LET psr == rlist.items[ind_rad_of(cfg)]
        names == sdBZ_fields(field_names_of(cfg))
    IN  IF ~names.bound
        THEN Scanned(Outcome(cfg, Raised("UnboundLocalError"), FALSE), psr)
        ELSE IF names.sdBZ \notin DOMAIN psr.fields
        THEN Scanned(Outcome(cfg, NoneVal, FALSE), psr)
        ELSE Scanned(
                 Outcome(cfg,
                         scan_dataset(
                             [psr EXCEPT !.fields =
                                 [f \in {"spectrum_width"} |->
                                     [compute |-> "compute_Doppler_width",
                                      sdBZ |-> psr.fields[names.sdBZ]]]]),
                         FALSE),
                 psr)

(***************************************************************************)
(* pyrad.prod.process_spectra_products.generate_spectra_products.  The      *)
(* value returned is None or the list of the files written, here the name   *)
(* stem of the product and the kind of plot made.  The range-Doppler        *)
(* products plot one ray, the Doppler products one bin of one ray, the      *)
(* time-Doppler products the rays of the record over time; only the last    *)
(* read the completion flag of the dataset.                                 *)
(***************************************************************************)
\* No dataset was given to the product generator since the last call
NoProduct == [files |-> NoneVal]

RangeDopplerTypes ==
    {"RANGE_DOPPLER", "COMPLEX_RANGE_DOPPLER", "AMPLITUDE_PHASE_RANGE_DOPPLER"}

TimeDopplerTypes ==
    {"TIME_DOPPLER", "COMPLEX_TIME_DOPPLER", "AMPLITUDE_PHASE_TIME_DOPPLER"}

DopplerTypes == {"DOPPLER", "COMPLEX_DOPPLER", "AMPLITUDE_PHASE_DOPPLER"}

\* The first argument of make_filename in the branch of the type
prdtype_of(type) ==
    CASE type = "RANGE_DOPPLER" -> "range_Doppler"
      [] type = "TIME_DOPPLER" -> "time_Doppler"
      [] type = "DOPPLER" -> "Doppler"
      [] type = "COMPLEX_RANGE_DOPPLER" -> "c_range_Doppler"
      [] type = "COMPLEX_TIME_DOPPLER" -> "c_time_Doppler"
      [] type = "COMPLEX_DOPPLER" -> "c_Doppler"
      [] type = "AMPLITUDE_PHASE_DOPPLER" -> "ap_Doppler"
      [] type = "AMPLITUDE_PHASE_RANGE_DOPPLER" -> "ap_range_Doppler"
      [] OTHER -> "ap_time_Doppler"

\* An index, as a value that may also be None
Index(i) == [kind |-> "int", value |-> i]

\* pyrad.util.radar_utils.find_ray_index and find_rng_index, as their
\* callers use them: the index (from 0) of the ray within both tolerances
\* that is nearest in azimuth, or of the nearest bin when it is within the
\* tolerance; None when there is none
find_ray_index(ele_vec, azi_vec, ele, azi, ele_tol, azi_tol) ==
    LET near == {i \in DOMAIN azi_vec :
                    /\ Abs(ele_vec[i] - ele) <= ele_tol
                    /\ Abs(azi_vec[i] - azi) <= azi_tol}
        best == {i \in near :
                    \A k \in near :
                        Abs(azi_vec[i] - azi) <= Abs(azi_vec[k] - azi)}
    IN  IF near = {} THEN NoneVal
        ELSE Index((CHOOSE i \in best : \A k \in best : i <= k) - 1)

find_rng_index(rng_vec, rng, rng_tol) ==
    IF SeqMin(abs_diff(rng_vec, rng)) > rng_tol THEN NoneVal
    ELSE Index(ArgMin(abs_diff(rng_vec, rng)) - 1)

\* The files of a product: the name stem and the plot
product_files(prdcfg, plot) ==
    [kind |-> "files", prdtype |-> prdtype_of(prdcfg.type), plot |-> plot]

\* (mutant) a ray that is not found is taken to be the first one
range_Doppler_product_first_ray(dset, prdcfg) ==
    IF prdcfg.voltype \notin DOMAIN dset.radar_out.fields
    THEN NoneVal
    ELSE product_files(prdcfg, IF dset.radar_out.ngates = 1 THEN "Doppler"
                               ELSE "range_Doppler")

\* The branch of a range-Doppler type: the ray is the one of the angles
\* 'azi' and 'ele' when both are given, the ray 'ind_ray' otherwise
range_Doppler_product(dset, prdcfg) ==
    LET rec == dset.radar_out
        ind_ray == IF ~Has(prdcfg, "azi") \/ ~Has(prdcfg, "ele")
                   THEN Index(Get(prdcfg, "ind_ray", 0))
                   ELSE find_ray_index(rec.elevation, rec.azimuth, prdcfg.ele,
                                       prdcfg.azi, Get(prdcfg, "ele_tol", 10),
                                       Get(prdcfg, "azi_tol", 10))
    IN  IF prdcfg.voltype \notin DOMAIN rec.fields THEN NoneVal
        ELSE IF IsNone(ind_ray) THEN NoneVal
        ELSE product_files(prdcfg, IF rec.ngates = 1 THEN "Doppler"
                                   ELSE "range_Doppler")

\* (mutant) the completion flag is not looked at
time_Doppler_product_always(dset, prdcfg) ==
    IF prdcfg.voltype \notin DOMAIN dset.radar_out.fields
    THEN NoneVal
    ELSE [kind |-> "files",
          prdtype |-> prdtype_of(prdcfg.type),
          plot |-> IF dset.radar_out.nrays = 1 THEN "Doppler"
                   ELSE "time_Doppler"]

\* The branch of a time-Doppler type
time_Doppler_product(dset, prdcfg) ==
    IF prdcfg.voltype \notin DOMAIN dset.radar_out.fields
    THEN NoneVal
    ELSE IF Get(prdcfg, "plot_type", "final") = "final" /\ ~dset.final
    THEN NoneVal
    ELSE [kind |-> "files",
          prdtype |-> prdtype_of(prdcfg.type),
          plot |-> IF dset.radar_out.nrays = 1 THEN "Doppler"
                   ELSE "time_Doppler"]

\* The branch of a Doppler type: the bin is the one of the point 'azi',
\* 'ele', 'rng' when the three are given, the bin 'ind_rng' of the ray
\* 'ind_ray' otherwise
Doppler_product(dset, prdcfg) ==
    LET rec == dset.radar_out
        byindex == ~Has(prdcfg, "azi") \/ ~Has(prdcfg, "ele") \/ ~Has(prdcfg, "rng")
        ind_ray == IF byindex THEN Index(Get(prdcfg, "ind_ray", 0))
                   ELSE find_ray_index(rec.elevation, rec.azimuth, prdcfg.ele,
                                       prdcfg.azi, Get(prdcfg, "ele_tol", 10),
                                       Get(prdcfg, "azi_tol", 10))
        ind_rng == IF byindex THEN Index(Get(prdcfg, "ind_rng", 0))
                   ELSE find_rng_index(rec.range, prdcfg.rng,
                                       Get(prdcfg, "rng_tol", 50))
    IN  IF prdcfg.voltype \notin DOMAIN rec.fields THEN NoneVal
        ELSE IF IsNone(ind_rng) \/ IsNone(ind_ray) THEN NoneVal
        ELSE product_files(prdcfg, "Doppler")

\* The last statement warns of the unsupported type and returns None
generate_spectra_products(dset, prdcfg) ==
    IF prdcfg.type \in RangeDopplerTypes
    THEN range_Doppler_product(dset, prdcfg)
    ELSE IF prdcfg.type \in TimeDopplerTypes
    THEN time_Doppler_product(dset, prdcfg)
    ELSE IF prdcfg.type \in DopplerTypes
    THEN Doppler_product(dset, prdcfg)
    ELSE NoneVal

(***************************************************************************)
(* The run: the configuration and the scans the calls are given.            *)
(***************************************************************************)
FieldNames == <<"sPhh", "sPvv">>

AllFields == {FieldNames[k] : k \in DOMAIN FieldNames}

\* The point of interest: azimuth 10 deg, elevation 5 deg, range 5000 m
AntennaPoint == [datatype |-> FieldNames, latlon |-> FALSE,
                 rng |-> 5000, azi |-> 100, ele |-> 50]

\* The same point with the tolerances configured: 1 deg, 1 deg, 50 m
AntennaPointTol == [datatype |-> FieldNames, latlon |-> FALSE,
                    rng |-> 5000, azi |-> 100, ele |-> 50,
                    AziTol |-> 10, EleTol |-> 10, RngTol |-> 50]

\* The same point given by its position, for a sensor at (0, 0, 400)
GeographicPoint == [datatype |-> FieldNames, latlon |-> TRUE,
                    lon |-> 500, lat |-> 4000, alt |-> 650]

\* The geographic point with the three tolerances configured
GeographicPointTol == [datatype |-> FieldNames, latlon |-> TRUE,
                       lon |-> 500, lat |-> 4000, alt |-> 650,
                       AziTol |-> 10, EleTol |-> 10, RngTol |-> 50]

NewRun(config) ==
    [k \in DOMAIN config \cup {"initialized", "global_data"} |->
        IF k = "initialized" THEN 0
        ELSE IF k = "global_data" THEN NoneVal
        ELSE config[k]]

Geometry(az, el, rng) == [azimuth |-> az, elevation |-> el, range |-> rng]

\* The times of the volumes; the time also makes the data of a volume differ
\* from the data of the others
VolumeTimes == {1, 2}

\* Scans of the accumulator runs: the nearest bin is ray 2, bin 2, or no ray
\* is within the azimuth tolerance
GeometriesAcc ==
    {Geometry(<<120, 103>>, <<50, 50>>, <<4900, 5000>>),
     Geometry(<<120, 130>>, <<50, 50>>, <<4900, 5000>>)}

ScansAcc ==
    {MkScan(g, seed, npulses, AllFields, FALSE, FALSE, 0) :
        g \in GeometriesAcc, seed \in VolumeTimes, npulses \in 1..MaxPulses}

ConfigsAcc == {AntennaPointTol, GeographicPoint}

\* Scans of the locator runs: each ray at an azimuth inside the tolerance of
\* 1 deg (10.3), at it (9.0) or outside (11.1), and at an elevation inside
\* (5.0), at the tolerance (4.0) or outside (6.1); or the range axis with
\* bins inside the tolerance of 50 m, at it (4950) or outside (4949, 5051)
RayAzimuths == {<<a1, a2>> : a1 \in {90, 103, 111}, a2 \in {90, 103, 111}}

RayElevations == {<<e1, e2>> : e1 \in {40, 50, 61}, e2 \in {40, 50, 61}}

RangeAxes ==
    {<<4949, 5051>>, <<4950, 5051>>, <<4949, 5000>>, <<4950, 5000>>,
     <<5000, 5051>>, <<4950, 5050>>}

GeometriesLoc ==
    {Geometry(az, el, <<4900, 5000>>) : az \in RayAzimuths, el \in RayElevations}
    \cup {Geometry(<<103, 111>>, <<61, 50>>, rng) : rng \in RangeAxes}

ScansLoc == {MkScan(g, 1, 1, AllFields, FALSE, FALSE, 0) : g \in GeometriesLoc}

ConfigsLoc == {AntennaPointTol, GeographicPointTol}

\* Scans of the runs with incomplete scans: the nearest bin is ray 2, bin 2
\* and the scan has every configured field or lacks the second one, or no
\* ray is within the azimuth tolerance
ScansMiss ==
    {MkScan(Geometry(<<120, 103>>, <<50, 50>>, <<4900, 5000>>), 1, npulses,
            present, FALSE, FALSE, 0) :
        npulses \in 1..MaxPulses, present \in {AllFields, {"sPhh"}}}
    \cup {MkScan(Geometry(<<120, 130>>, <<50, 50>>, <<4900, 5000>>), 1, 1,
                 AllFields, FALSE, FALSE, 0)}

ConfigsMiss == {AntennaPointTol}

\* Scans of the runs of a moving sensor: the nearest bin is ray 2, bin 2, or
\* no ray is within the azimuth tolerance; the sensor reports one of two
\* longitudes
SensorLongitudes == {0, 7}

ScansMove ==
    {MkScan(g, seed, 1, AllFields, FALSE, FALSE, lon0) :
        g \in GeometriesAcc, seed \in VolumeTimes, lon0 \in SensorLongitudes}

ConfigsMove == {AntennaPointTol}

\* The scan with the times of its rays later by some quarters of a second
Delayed(psr, ticks) ==
    [psr EXCEPT !.time.data = [ray \in DOMAIN @ |-> @[ray] + ticks]]

\* Scans of the runs that look at the time axis: the nearest bin is ray 2,
\* bin 2; the rays are timed on a whole second or three quarters after it,
\* and the volumes arrive in any order of their times
RayDelays == {0, 3}

ScansTime ==
    {Delayed(MkScan(Geometry(<<120, 103>>, <<50, 50>>, <<4900, 5000>>), seed,
                    1, AllFields, FALSE, FALSE, 0), ticks) :
        seed \in VolumeTimes, ticks \in RayDelays}

ConfigsTime == {AntennaPointTol}

\* Scans of the runs with Doppler axes: the nearest bin is ray 2, bin 2; a
\* scan has the Doppler velocities or not, and the Doppler frequencies or not
ScansDop ==
    {MkScan(Geometry(<<120, 103>>, <<50, 50>>, <<4900, 5000>>), seed, npulses,
            AllFields, hasVel, hasFreq, 0) :
        seed \in {1}, npulses \in 1..MaxPulses,
        hasVel \in BOOLEAN, hasFreq \in BOOLEAN}

ConfigsDop == {AntennaPointTol}

\* What an earlier run can have left in global_data: its record of two rows
\* of the greatest width, of a sensor at another longitude, and its
\* coordinates
StaleData(config) ==
    process_volume(
        process_volume(
            NewRun(config),
            MkScan(Geometry(<<120, 103>>, <<50, 50>>, <<4900, 5000>>), 1,
                   MaxPulses, AllFields, FALSE, FALSE, 7)).dscfg,
        MkScan(Geometry(<<120, 103>>, <<50, 50>>, <<4900, 5000>>), 2,
               MaxPulses, AllFields, FALSE, FALSE, 7)).dscfg.global_data

\* An idle run that holds what an earlier run left
StaleRun(config) == [NewRun(config) EXCEPT !.global_data = StaleData(config)]

ConfigsStale == {AntennaPointTol}

\* A configuration without one of its entries
Without(config, key) == [k \in DOMAIN config \ {key} |-> config[k]]

\* Configurations of the runs with a malformed point: the point in antenna
\* coordinates lacks its range, azimuth or elevation, the point in
\* geographic coordinates its longitude or latitude; and a well-formed one
ConfigsBad ==
    {Without(AntennaPointTol, key) : key \in {"rng", "azi", "ele"}}
    \cup {Without(GeographicPoint, key) : key \in {"lon", "lat"}}
    \cup {AntennaPointTol}

\* A radar list: None, or the list of the scans (or None) of the radars
RadarList(items) == [kind |-> "list", items |-> items]

(***************************************************************************)
(* What the calls are expected to do, stated without the locator: the point *)
(* of the run is the point the resolver gives, in either mode; a scan is    *)
(* within tolerance when, on each axis, some ray (bin) is no farther from   *)
(* the point than the tolerance of that axis (configured, or 0.5 deg,       *)
(* 0.5 deg, 50 m); the bin of the point is the first ray with the least sum *)
(* of the two angular distances and the first bin with the least range      *)
(* distance.                                                                *)
(***************************************************************************)
AziTolOf(cfg) == Get(cfg, "AziTol", 5)

EleTolOf(cfg) == Get(cfg, "EleTol", 5)

RngTolOf(cfg) == Get(cfg, "RngTol", 50)

Least(S) == CHOOSE m \in S : \A x \in S : m <= x

\* The point of the run in antenna coordinates
TargetOf(cfg, psr) == resolve_point(cfg, psr)

Distances(cfg, psr) ==
    Bind(TargetOf(cfg, psr), LAMBDA t :
        <<Least({Abs(psr.azimuth[i] - t.az) : i \in DOMAIN psr.azimuth}),
          Least({Abs(psr.elevation[i] - t.el) : i \in DOMAIN psr.elevation}),
          Least({Abs(psr.range[j] - t.r) : j \in DOMAIN psr.range})>>)

WithinTolerance(cfg, psr) ==
    Bind(Distances(cfg, psr), LAMBDA d :
        /\ d[1] <= AziTolOf(cfg)
        /\ d[2] <= EleTolOf(cfg)
        /\ d[3] <= RngTolOf(cfg))

\* The full circle, in tenths of a degree
FullCircle == 3600

\* The distance of two azimuths round the circle
CircularDistance(a, b) ==
    IF Abs(a - b) <= FullCircle - Abs(a - b) THEN Abs(a - b)
    ELSE FullCircle - Abs(a - b)

\* The least distance round the circle of the rays of a scan to the azimuth
\* of the point
CircularAzimuthDistance(cfg, psr) ==
    Bind(TargetOf(cfg, psr), LAMBDA t :
        Least({CircularDistance(psr.azimuth[i], t.az) : i \in DOMAIN psr.azimuth}))

AngularDistance(t, psr, i) ==
    Abs(psr.azimuth[i] - t.az) + Abs(psr.elevation[i] - t.el)

ExpectedRay(cfg, psr) ==
    Bind(TargetOf(cfg, psr), LAMBDA t :
        Least({i \in DOMAIN psr.azimuth :
                  \A k \in DOMAIN psr.azimuth :
                      AngularDistance(t, psr, i) <= AngularDistance(t, psr, k)}))

ExpectedBin(cfg, psr) ==
    Bind(TargetOf(cfg, psr).r, LAMBDA r :
        Least({j \in DOMAIN psr.range :
                  \A k \in DOMAIN psr.range :
                      Abs(psr.range[j] - r) <= Abs(psr.range[k] - r)}))

\* The cells of the bin of the point, per configured field: masked cells for
\* a field the scan does not have
Supplied(cfg, psr) ==
    Bind(<<ExpectedRay(cfg, psr), ExpectedBin(cfg, psr)>>, LAMBDA at :
        [f \in {cfg.datatype[k] : k \in DOMAIN cfg.datatype} |->
            IF f \in DOMAIN psr.fields
            THEN psr.fields[f][at[1]][at[2]]
            ELSE [p \in 1..psr.npulses_max |-> Masked]])

\* The Doppler velocities and the Doppler frequencies of the ray of the
\* point: None for an axis the scan does not have
SuppliedAxes(cfg, psr) ==
    Bind(ExpectedRay(cfg, psr), LAMBDA ray :
        <<IF IsNone(psr.Doppler_velocity) THEN NoneVal
          ELSE [data |-> psr.Doppler_velocity.data[ray]],
          IF IsNone(psr.Doppler_frequency) THEN NoneVal
          ELSE [data |-> psr.Doppler_frequency.data[ray]]>>)

ValidScan(rlist) == ~IsNone(rlist) /\ ~IsNone(rlist.items[1])

\* The configured fields the scan does not have
Missing(cfg, psr) ==
    {f \in {cfg.datatype[k] : k \in DOMAIN cfg.datatype} : f \notin DOMAIN psr.fields}

\* What is kept of a call: its procstatus; whether it had no radar list
\* ("nolist"), None for the radar ("none") or a scan ("scan"); for a scan,
\* its pulse count, the configured fields it lacks, its distances to the
\* point and the ray and bin nearest to the point, when it is within
\* tolerance the cells of the bin of the point and the Doppler axes of its
\* ray, and the least distance of its rays to the azimuth of the point
\* round the circle
CallOf(status, rlist, cfg) ==
    LET radar == IF IsNone(rlist) THEN "nolist"
                 ELSE IF IsNone(rlist.items[1]) THEN "none" ELSE "scan"
        unscanned == [procstatus |-> status, radar |-> radar,
                      distance |-> << >>, within |-> FALSE, npulses |-> 0,
                      missing |-> {}, expected |-> << >>, supplied |-> << >>,
                      axes |-> << >>, circular |-> 0]
    IN  IF status # 1 \/ ~ValidScan(rlist) THEN unscanned
        ELSE IF TargetOf(cfg, rlist.items[1]).kind # "ok" THEN unscanned
        ELSE Bind(rlist.items[1], LAMBDA psr :
             Bind(WithinTolerance(cfg, psr), LAMBDA within :
                 [procstatus |-> status,
                  radar |-> radar,
                  distance |-> Distances(cfg, psr),
                  within |-> within,
                  npulses |-> psr.npulses_max,
                  missing |-> Missing(cfg, psr),
                  expected |-> <<ExpectedRay(cfg, psr), ExpectedBin(cfg, psr)>>,
                  supplied |-> IF within THEN Supplied(cfg, psr) ELSE << >>,
                  axes |-> IF within THEN SuppliedAxes(cfg, psr) ELSE << >>,
                  circular |-> CircularAzimuthDistance(cfg, psr)]))

\* The ray and the bin a call selected, with the distances of that ray to
\* the point in azimuth and in elevation and the timestamp of that ray
\* (empty when the call selected none)
SelectionOf(out, rlist) ==
    IF out.ind_ray = 0 THEN << >>
    ELSE Bind(TargetOf(out.dscfg, rlist.items[1]), LAMBDA t :
             <<out.ind_ray, out.ind_rng,
               Abs(rlist.items[1].azimuth[out.ind_ray] - t.az),
               Abs(rlist.items[1].elevation[out.ind_ray] - t.el),
               rlist.items[1].time.units
                   + rlist.items[1].time.data[out.ind_ray]>>)

\* The row of the record a call has just written, per field (empty when the
\* call raised before it wrote the field)
LastRows(psr_poi) ==
    [f \in DOMAIN psr_poi.fields |->
        IF Len(psr_poi.fields[f]) >= psr_poi.nrays /\ psr_poi.nrays > 0
        THEN psr_poi.fields[f][psr_poi.nrays]
        ELSE << >>]

(***************************************************************************)
(* Actions: one call of process_spectra_point each.                         *)
(***************************************************************************)
\* What a call leaves in the run and in the history
Returned(status, rlist, out) ==
    /\ call' = CallOf(status, rlist, dscfg)
    /\ dscfg' = out.dscfg
    /\ result' = out.ret
    /\ appended' =
           IF out.reached
           THEN Append(appended,
                       [npulses |-> rlist.items[1].npulses_max,
                        ok |-> out.ret.kind = "dataset",
                        time |-> SelectionOf(out, rlist)[5],
                        rows |-> LastRows(out.dscfg.global_data.psr_poi)])
           ELSE appended
    /\ accepted' = IF call'.within THEN accepted + 1 ELSE accepted
    /\ selected' = SelectionOf(out, rlist)
    /\ again' = (status = 2 /\ call.procstatus = 2)
    /\ intact' = (IsNone(out.psr) \/ out.psr = rlist.items[1])
    /\ product' = NoProduct
    /\ returned' = IF status = 1 /\ out.ret.kind = "dataset"
                    THEN out.ret.radar_out
                    ELSE returned
    /\ Len(appended') <= MaxRows
    /\ accepted' <= MaxRows

\* procstatus 0
Initialize ==
    /\ UNCHANGED flight
    /\ \E out \in {process_spectra_point(0, dscfg, NoneVal)} :
           Returned(0, NoneVal, out)

\* procstatus 1 without a usable scan: no list, or None for this radar
NoValidRadar ==
    /\ UNCHANGED flight
    /\ \E rlist \in {NoneVal, RadarList(<<NoneVal>>)} :
           \E out \in {process_spectra_point(1, dscfg, rlist)} :
               Returned(1, rlist, out)

\* procstatus 1 with a scan
ProcessVolume(scans) ==
    /\ UNCHANGED flight
    /\ \E psr \in scans :
           \E out \in {process_spectra_point(1, dscfg, RadarList(<<psr>>))} :
               Returned(1, RadarList(<<psr>>), out)

\* procstatus 2
PostProcess ==
    /\ UNCHANGED flight
    /\ \E out \in {process_spectra_point(2, dscfg, NoneVal)} :
           Returned(2, NoneVal, out)

NoCall == [procstatus |-> -1, radar |-> "nolist", distance |-> << >>,
           within |-> FALSE, npulses |-> 0, missing |-> {},
           expected |-> << >>, supplied |-> << >>, axes |-> << >>,
           circular |-> 0]

\* The accumulated record of a configuration dictionary
RecordOf(cfg) == cfg.global_data.psr_poi

\* No call under way; the calls of the run do not overlap
NoFlight == [serial |-> TRUE, calls |-> <<[pc |-> "none"], [pc |-> "none"]>>]

InitWith(configs) ==
    /\ dscfg \in {NewRun(c) : c \in configs}
    /\ call = NoCall
    /\ result = NoneVal
    /\ appended = << >>
    /\ accepted = 0
    /\ selected = << >>
    /\ again = FALSE
    /\ intact = TRUE
    /\ flight = NoFlight
    /\ product = NoProduct
    /\ returned = NoneVal

Init == InitWith(ConfigsAcc)

Next ==
    \/ Initialize
    \/ NoValidRadar
    \/ ProcessVolume(ScansAcc)
    \/ PostProcess

Spec == Init /\ [][Next]_vars

\* The runs of the locator
InitLoc == InitWith(ConfigsLoc)

NextLoc ==
    \/ Initialize
    \/ NoValidRadar
    \/ ProcessVolume(ScansLoc)
    \/ PostProcess

SpecLoc == InitLoc /\ [][NextLoc]_vars

\* The runs with incomplete scans
InitMiss == InitWith(ConfigsMiss)

NextMiss ==
    \/ Initialize
    \/ NoValidRadar
    \/ ProcessVolume(ScansMiss)
    \/ PostProcess

SpecMiss == InitMiss /\ [][NextMiss]_vars

\* The runs of a moving sensor
InitMove == InitWith(ConfigsMove)

NextMove ==
    \/ Initialize
    \/ NoValidRadar
    \/ ProcessVolume(ScansMove)
    \/ PostProcess

SpecMove == InitMove /\ [][NextMove]_vars

\* The runs that look at the time axis
InitTime == InitWith(ConfigsTime)

NextTime ==
    \/ Initialize
    \/ NoValidRadar
    \/ ProcessVolume(ScansTime)
    \/ PostProcess

SpecTime == InitTime /\ [][NextTime]_vars

\* The runs with Doppler axes
InitDop == InitWith(ConfigsDop)

NextDop ==
    \/ Initialize
    \/ NoValidRadar
    \/ ProcessVolume(ScansDop)
    \/ PostProcess

SpecDop == InitDop /\ [][NextDop]_vars

\* The runs that start idle on what an earlier run left
InitStale ==
    /\ dscfg \in {StaleRun(c) : c \in ConfigsStale}
    /\ call = NoCall
    /\ result = NoneVal
    /\ appended = << >>
    /\ accepted = 0
    /\ selected = << >>
    /\ again = FALSE
    /\ intact = TRUE
    /\ flight = NoFlight
    /\ product = NoProduct
    /\ returned = NoneVal

NextStale ==
    \/ Initialize
    \/ NoValidRadar
    \/ ProcessVolume(ScansAcc)
    \/ PostProcess

SpecStale == InitStale /\ [][NextStale]_vars

(***************************************************************************)
(* Processing calls taken statement by statement (lines 286-398), so that   *)
(* two calls of one run can overlap.  The record is one object that both    *)
(* calls change in place; what a call holds of its own is its scan, the     *)
(* bin it selected and the time axis np.append returned to it.              *)
(***************************************************************************)
CallIds == 1..2

InFlight(c) == flight.calls[c].pc # "none"

Boundary == \A c \in CallIds : ~InFlight(c)

\* The scans of the overlapping calls: the nearest bin is ray 2, bin 2
ScansRace ==
    {MkScan(Geometry(<<120, 103>>, <<50, 50>>, <<4900, 5000>>), seed, 1,
            AllFields, FALSE, FALSE, 0) : seed \in VolumeTimes}

ConfigsRace == {AntennaPointTol}

\* What a step leaves: the record and the position of the call
Stepped(c, psr_poi, at) ==
    /\ dscfg' = [dscfg EXCEPT !.global_data.psr_poi = psr_poi]
    /\ flight' = [flight EXCEPT !.calls[c] = at]
    /\ UNCHANGED <<call, result, appended, accepted, selected, again, intact,
                   product, returned>>

\* Lines 133-241 of a call on an accumulating run whose scan holds the bin:
\* nothing of the run is changed yet
Begin(c) ==
    /\ dscfg.initialized = 1
    /\ ~InFlight(c)
    /\ flight.serial => Boundary
    /\ Len(appended) + Cardinality({d \in CallIds : InFlight(d)}) < MaxRows
    /\ \E psr \in ScansRace :
           \E bin \in {locate(psr, resolve_point(dscfg, psr))} :
               /\ bin.kind = "ok"
               /\ Stepped(c, RecordOf(dscfg),
                          [pc |-> "time", psr |-> psr, bin |-> bin, data |-> << >>])

\* Lines 287-290, the right-hand side: the new time axis is computed
ReadTime(c) ==
    /\ flight.calls[c].pc = "time"
    /\ LET my == flight.calls[c]
           time_poi == num2date(my.psr.time.data[my.bin.ind_ray], my.psr.time.units)
       IN  Stepped(c, RecordOf(dscfg),
                   [my EXCEPT !.pc = "store",
                              !.data = time_appended(RecordOf(dscfg), time_poi)])

\* Lines 289-290, the assignment
WriteTime(c) ==
    /\ flight.calls[c].pc = "store"
    /\ LET my == flight.calls[c]
       IN  Stepped(c, time_written(RecordOf(dscfg), my.data),
                   [my EXCEPT !.pc = "count", !.data = << >>])

\* Lines 291-293
CountRay(c) ==
    /\ flight.calls[c].pc = "count"
    /\ Stepped(c, ray_counted(RecordOf(dscfg)),
               [flight.calls[c] EXCEPT !.pc = "point"])

\* Lines 294-302
PointRay(c) ==
    /\ flight.calls[c].pc = "point"
    /\ Stepped(c, ray_pointed(RecordOf(dscfg),
                              resolve_point(dscfg, flight.calls[c].psr)),
               [flight.calls[c] EXCEPT !.pc = "rows"])

\* Lines 304-385: the rows of the fields and of the Doppler axes, the width
PutRows(c) ==
    /\ flight.calls[c].pc = "rows"
    /\ LET my == flight.calls[c]
       IN  \E put \in {put_rows(RecordOf(dscfg), my.psr, my.bin.ind_ray,
                                 my.bin.ind_rng, field_names_of(dscfg))} :
               Stepped(c, put.psr_poi,
                       [my EXCEPT !.pc = IF put.ok THEN "return" ELSE "raise"])

\* Lines 387-398, or the exception of a statement: the call is over
Return(c) ==
    /\ flight.calls[c].pc \in {"return", "raise"}
    /\ flight' = [flight EXCEPT !.calls[c] = [pc |-> "none"]]
    /\ LET my == flight.calls[c]
           ret == IF my.pc = "return" THEN dataset(dscfg, FALSE)
                  ELSE Raised("Error")
       IN  Returned(1, RadarList(<<my.psr>>),
                    Selected(Scanned(Outcome(dscfg, ret, TRUE), my.psr), my.bin))

\* The runs whose calls overlap, or do not
InitRace ==
    /\ dscfg \in {NewRun(c) : c \in ConfigsRace}
    /\ call = NoCall
    /\ result = NoneVal
    /\ appended = << >>
    /\ accepted = 0
    /\ selected = << >>
    /\ again = FALSE
    /\ intact = TRUE
    /\ flight \in {[NoFlight EXCEPT !.serial = b] : b \in BOOLEAN}
    /\ product = NoProduct
    /\ returned = NoneVal

NextRace ==
    \/ Boundary /\ ProcessVolume(ScansRace)
    \/ Boundary /\ PostProcess
    \/ \E c \in CallIds : Begin(c)
    \/ \E c \in CallIds : ReadTime(c)
    \/ \E c \in CallIds : WriteTime(c)
    \/ \E c \in CallIds : CountRay(c)
    \/ \E c \in CallIds : PointRay(c)
    \/ \E c \in CallIds : PutRows(c)
    \/ \E c \in CallIds : Return(c)

SpecRace == InitRace /\ [][NextRace]_vars

\* The product configurations: a time-Doppler type or a type that is not
\* supported, of a field of the data set or of another one, with plot_type
\* left out, 'final' or 'temporal'
ProductConfigs ==
    {[type |-> t, voltype |-> v] :
        t \in TimeDopplerTypes \cup {"UNKNOWN"}, v \in {"sPhh", "dBZ"}}
    \cup {[type |-> t, voltype |-> v, plot_type |-> pt] :
             t \in TimeDopplerTypes, v \in {"sPhh", "dBZ"},
             pt \in {"final", "temporal"}}

\* The products of one ray or of one bin: of a field of the data set or of
\* another one; of the first ray and bin, of the ray and the bin of the
\* point of the run, of a ray 10 deg off in azimuth or of a bin 4 km farther
RayConfigs ==
    {[type |-> t, voltype |-> v] :
        t \in RangeDopplerTypes, v \in {"sPhh", "dBZ"}}
    \cup {[type |-> t, voltype |-> v, azi |-> az, ele |-> 50] :
             t \in RangeDopplerTypes, v \in {"sPhh", "dBZ"}, az \in {100, 200}}

BinConfigs ==
    {[type |-> t, voltype |-> v] :
        t \in DopplerTypes, v \in {"sPhh", "dBZ"}}
    \cup {[type |-> t, voltype |-> v, azi |-> pt[1], ele |-> 50, rng |-> pt[2]] :
             t \in DopplerTypes, v \in {"sPhh", "dBZ"},
             pt \in {<<100, 5000>>, <<200, 5000>>, <<100, 9000>>}}

AllProductConfigs == ProductConfigs \cup RayConfigs \cup BinConfigs

\* The product generator is given the dataset the last call returned
GenerateProducts(prdcfgs) ==
    /\ result.kind = "dataset"
    /\ \E prdcfg \in prdcfgs :
           product' = [prdcfg |-> prdcfg,
                       files |-> generate_spectra_products(result, prdcfg)]
    /\ UNCHANGED <<dscfg, call, result, appended, accepted, selected, again,
                   intact, flight, returned>>

\* The runs with their products
InitProd == InitWith(ConfigsRace)

NextProd ==
    \/ Initialize
    \/ NoValidRadar
    \/ ProcessVolume(ScansRace)
    \/ PostProcess
    \/ GenerateProducts(ProductConfigs)

SpecProd == InitProd /\ [][NextProd]_vars

\* The runs with the products of every type
InitTypes == InitWith(ConfigsRace)

NextTypes ==
    \/ Initialize
    \/ NoValidRadar
    \/ ProcessVolume(ScansRace)
    \/ PostProcess
    \/ GenerateProducts(AllProductConfigs)

SpecTypes == InitTypes /\ [][NextTypes]_vars

\* The runs of one configured field: the scans have that field, both fields,
\* or only the field that is not configured; the nearest bin is ray 2,
\* bin 2, or no ray is within the azimuth tolerance
OneField == [AntennaPointTol EXCEPT !.datatype = <<"sPhh">>]

ScansFields ==
    {MkScan(Geometry(<<120, 103>>, <<50, 50>>, <<4900, 5000>>), seed, 1,
            present, FALSE, FALSE, 0) :
        seed \in VolumeTimes, present \in {{"sPhh"}, AllFields, {"sPvv"}}}
    \cup {MkScan(Geometry(<<120, 130>>, <<50, 50>>, <<4900, 5000>>), 1, 1,
                 AllFields, FALSE, FALSE, 0)}

ConfigsFields == {OneField}

InitFields == InitWith(ConfigsFields)

NextFields ==
    \/ Initialize
    \/ NoValidRadar
    \/ ProcessVolume(ScansFields)
    \/ PostProcess

SpecFields == InitFields /\ [][NextFields]_vars

\* The runs of a point just east of north, at azimuth 0.2 deg: the second
\* ray of a scan is just west of north (359.0), within the azimuth
\* tolerance of 1 deg (0.5), at it (1.2) or outside (1.3), and the first ray
\* is at 359.7 deg, which is 0.5 deg from the point round the circle
NorthPoint == [AntennaPointTol EXCEPT !.azi = 2]

ScansWrap ==
    {MkScan(Geometry(<<3597, az2>>, <<50, 50>>, <<4900, 5000>>), seed, 1,
            AllFields, FALSE, FALSE, 0) :
        az2 \in {3590, 5, 12, 13}, seed \in VolumeTimes}

ConfigsWrap == {NorthPoint}

InitWrap == InitWith(ConfigsWrap)

NextWrap ==
    \/ Initialize
    \/ NoValidRadar
    \/ ProcessVolume(ScansWrap)
    \/ PostProcess

SpecWrap == InitWrap /\ [][NextWrap]_vars

\* The runs of the processors of one scan.  Their dictionaries name the two
\* fields or the signal field, with a filter width of 0 or one that covers
\* the Doppler values of the first ray of a scan; the scans have the two
\* fields, one of them, the signal field or the spectral reflectivity, with
\* or without the Doppler velocities
ScanConfigs ==
    {[datatype |-> names, filter_width |-> w] :
        names \in {FieldNames, <<"ShhADU">>, <<"sdBZ">>}, w \in {0, 62300}}

ScansScan ==
    {MkScan(Geometry(<<120, 103>>, <<50, 50>>, <<4900, 5000>>), 1, npulses,
            present, hasVel, FALSE, 0) :
        npulses \in 1..MaxPulses, present \in {AllFields, {"sPhh"}, {"ShhADU"}, {"sdBZ"}},
        hasVel \in BOOLEAN}

\* What a call of one of them leaves in the run and in the history
ScanReturned(status, rlist, out) ==
    /\ call' = [NoCall EXCEPT
                   !.procstatus = status,
                   !.radar = IF IsNone(rlist) THEN "nolist"
                             ELSE IF IsNone(rlist.items[1]) THEN "none"
                             ELSE "scan"]
    /\ dscfg' = out.dscfg
    /\ result' = out.ret
    /\ intact' = (IsNone(out.psr) \/ out.psr = rlist.items[1])
    /\ UNCHANGED <<appended, accepted, selected, again, flight, product,
                   returned>>

\* The radar lists a call is given: none, None for the radar, or a scan
RadarLists == {NoneVal, RadarList(<<NoneVal>>)}
                  \cup {RadarList(<<psr>>) : psr \in ScansScan}

RawSpectra ==
    \E status \in {0, 1, 2}, rlist \in RadarLists :
        \E out \in {process_raw_spectra(status, dscfg, rlist)} :
            ScanReturned(status, rlist, out)

Filter0Doppler ==
    \E status \in {0, 1, 2}, rlist \in RadarLists :
        \E out \in {process_filter_0Doppler(status, dscfg, rlist)} :
            ScanReturned(status, rlist, out)

SpectralPower ==
    \E status \in {0, 1, 2}, rlist \in RadarLists :
        \E out \in {process_spectral_power(status, dscfg, rlist)} :
            ScanReturned(status, rlist, out)

InitScan == InitWith(ScanConfigs)

DopplerWidth ==
    \E status \in {0, 1, 2}, rlist \in RadarLists :
        \E out \in {process_Doppler_width(status, dscfg, rlist)} :
            ScanReturned(status, rlist, out)

NextScan ==
    \/ RawSpectra
    \/ Filter0Doppler
    \/ SpectralPower
    \/ DopplerWidth

SpecScan == InitScan /\ [][NextScan]_vars

\* The runs with a malformed point
InitBad == InitWith(ConfigsBad)

NextBad ==
    \/ Initialize
    \/ NoValidRadar
    \/ ProcessVolume(ScansMiss)
    \/ PostProcess

SpecBad == InitBad /\ [][NextBad]_vars

(***************************************************************************)
(* Notions the properties share.                                            *)
(***************************************************************************)
\* The last call was a processing call that appended a row and returned it
Appended == result.kind = "dataset" /\ ~result.final

\* The step is a processing call that appends a row to an existing record
AppendStep ==
    /\ dscfg.initialized = 1
    /\ call'.procstatus = 1
    /\ result'.kind = "dataset"

Widest(history) ==
    Least({w \in {history[i].npulses : i \in DOMAIN history} :
              \A i \in DOMAIN history : history[i].npulses <= w})

AllMasked(row, from, to) == \A p \in from..to : row[p] = Masked

(***************************************************************************)
(* C1: no accumulated data is lost.  After each successful append, every    *)
(* row appended before is still at its index in every field, and its cells  *)
(* below the pulse width it was appended with are what they were right      *)
(* after it was appended.                                                   *)
(***************************************************************************)
C1_NoRowLost ==
    Appended =>
        \A i \in DOMAIN appended : \A f \in AllFields :
            /\ Len(RecordOf(dscfg).fields[f]) >= i
            /\ \A p \in 1..appended[i].npulses :
                   RecordOf(dscfg).fields[f][i][p] = appended[i].rows[f][p]

\* a row of 1 pulse, then a wider one, then a narrower one
C1_Witness ==
    /\ Appended
    /\ Len(appended) = 3
    /\ appended[1].npulses = 1
    /\ appended[2].npulses = 2
    /\ appended[3].npulses = 1
    /\ RecordOf(dscfg).fields["sPhh"][1][1] # Masked
    /\ RecordOf(dscfg).fields["sPhh"][2][2] # Masked

(***************************************************************************)
(* C2: row/attribute alignment.  After every successful append the time     *)
(* axis, the azimuth axis, the elevation axis and every field have nrays    *)
(* rows.                                                                    *)
(***************************************************************************)
C2_RowAlignment ==
    Appended =>
        LET psr_poi == RecordOf(dscfg)
        IN  /\ Len(psr_poi.time.data) = psr_poi.nrays
            /\ Len(psr_poi.azimuth) = psr_poi.nrays
            /\ Len(psr_poi.elevation) = psr_poi.nrays
            /\ \A f \in AllFields : Len(psr_poi.fields[f]) = psr_poi.nrays

C2_Witness ==
    /\ Appended
    /\ RecordOf(dscfg).nrays = 3
    /\ Len(RecordOf(dscfg).fields["sPvv"]) = 3
    /\ appended[2].npulses < appended[3].npulses

(***************************************************************************)
(* C3: monotonic width.  No call decreases npulses_max of the record.       *)
(***************************************************************************)
C3_MonotonicWidth ==
    [][(dscfg.initialized = 1 /\ dscfg'.initialized = 1) =>
          RecordOf(dscfg').npulses_max >= RecordOf(dscfg).npulses_max]_vars

\* a scan narrower than the record has been appended
C3_Witness ==
    /\ Appended
    /\ Len(appended) = 2
    /\ appended[1].npulses = 2
    /\ appended[2].npulses = 1
    /\ RecordOf(dscfg).npulses_max = 2

(***************************************************************************)
(* C4: after every successful append (and until the next one, whatever is   *)
(* skipped in between) the width of the record is the largest pulse count   *)
(* of the scans whose rows were appended, and every field array has that    *)
(* width.                                                                   *)
(***************************************************************************)
C4_WidthIsMax ==
    (dscfg.initialized = 1 /\ \A i \in DOMAIN appended : appended[i].ok) =>
        /\ RecordOf(dscfg).npulses_max = Widest(appended)
        /\ \A f \in AllFields :
               \A i \in DOMAIN RecordOf(dscfg).fields[f] :
                   Len(RecordOf(dscfg).fields[f][i]) = Widest(appended)

\* two rows of 1 pulse were appended, and then a scan of 2 pulses was
\* skipped
C4_Witness ==
    /\ Len(appended) = 2
    /\ appended[1].npulses = 1
    /\ appended[2].npulses = 1
    /\ call.radar = "scan" /\ ~call.within /\ call.npulses = 2
    /\ RecordOf(dscfg).npulses_max = 1

(***************************************************************************)
(* C5: padding of a narrower row.  A scan of W pulses appended to a record  *)
(* of width W' > W gives a row with the scan's cells in columns [0, W) and  *)
(* masked cells in [W, W'), in every field.                                 *)
(***************************************************************************)
C5_NarrowerRowPadded ==
    [][(AppendStep /\ call'.npulses < RecordOf(dscfg).npulses_max) =>
          \A f \in AllFields :
              LET row == RecordOf(dscfg').fields[f][RecordOf(dscfg').nrays]
              IN  /\ Len(row) = RecordOf(dscfg).npulses_max
                  /\ \A p \in 1..call'.npulses : row[p] = call'.supplied[f][p]
                  /\ AllMasked(row, call'.npulses + 1, RecordOf(dscfg).npulses_max)
      ]_vars

C5_Witness ==
    /\ Appended
    /\ call.npulses = 1
    /\ RecordOf(dscfg).npulses_max = 2
    /\ RecordOf(dscfg).fields["sPhh"][RecordOf(dscfg).nrays][1] # Masked
    /\ RecordOf(dscfg).fields["sPhh"][RecordOf(dscfg).nrays][2] = Masked

(***************************************************************************)
(* C6: padding on growth.  A scan of W'' pulses appended to a record of     *)
(* width old_max < W'' leaves the record W'' wide, the new row holding the  *)
(* W'' cells as supplied and every earlier row masked in [old_max, W''),    *)
(* in every field.                                                          *)
(***************************************************************************)
C6_GrowthMasksHistory ==
    [][(AppendStep /\ call'.npulses > RecordOf(dscfg).npulses_max) =>
          /\ RecordOf(dscfg').npulses_max = call'.npulses
          /\ \A f \in AllFields :
                 LET data == RecordOf(dscfg').fields[f]
                 IN  /\ Len(data) = RecordOf(dscfg).nrays + 1
                     /\ data[Len(data)] = call'.supplied[f]
                     /\ \A i \in 1..RecordOf(dscfg).nrays :
                            /\ Len(data[i]) = call'.npulses
                            /\ AllMasked(data[i],
                                         RecordOf(dscfg).npulses_max + 1,
                                         call'.npulses)
      ]_vars

\* widths 1 then 2: row 0 has column 1 masked and its own column 0 kept
C6_Witness ==
    /\ Appended
    /\ Len(appended) = 2
    /\ appended[1].npulses = 1
    /\ call.npulses = 2
    /\ RecordOf(dscfg).fields["sPhh"][1][1] # Masked
    /\ RecordOf(dscfg).fields["sPhh"][1][2] = Masked
    /\ RecordOf(dscfg).fields["sPhh"][2][2] # Masked

\* The number of rows of the record of a configuration dictionary
RowsOf(cfg) == IF cfg.initialized = 0 THEN 0 ELSE RecordOf(cfg).nrays

Tolerances(cfg) == <<AziTolOf(cfg), EleTolOf(cfg), RngTolOf(cfg)>>

\* The step is a processing call with a scan
ScanStep == call'.procstatus = 1 /\ call'.distance # << >>

\* The run gives its point in antenna coordinates
AntennaMode == ~Get(dscfg, "latlon", FALSE)

(***************************************************************************)
(* C7: the record a finalize call emits has as many rows as there were      *)
(* processing calls with a valid scan within the three tolerances; a        *)
(* skipped call contributes no row.                                         *)
(***************************************************************************)
C7_RowsAreAcceptedScans ==
    (result.kind = "dataset" /\ result.final) =>
        /\ result.radar_out.nrays = accepted
        /\ Len(result.radar_out.time.data) = accepted
        /\ \A f \in AllFields : Len(result.radar_out.fields[f]) = accepted

(***************************************************************************)
(* C8: tolerance boundary.  On each axis (azimuth, elevation, range) a scan *)
(* whose least distance to the point equals the tolerance is accepted (when *)
(* the other two axes are within tolerance): the call appends a row and     *)
(* returns the record; and a scan whose least distance is greater than the  *)
(* tolerance is rejected: the call returns no record and appends no row.    *)
(***************************************************************************)
C8_ToleranceBoundary ==
    [][ScanStep =>
          LET d   == call'.distance
              tol == Tolerances(dscfg)
          IN  \A k \in 1..3 :
                  /\ (d[k] = tol[k] /\ \A m \in 1..3 : d[m] <= tol[m]) =>
                         /\ result'.kind = "dataset"
                         /\ RowsOf(dscfg') = RowsOf(dscfg) + 1
                  /\ d[k] > tol[k] =>
                         /\ result'.kind # "dataset"
                         /\ RowsOf(dscfg') = RowsOf(dscfg)
      ]_vars

\* C8 for the runs in antenna mode alone
AntennaToleranceBoundary ==
    [][(ScanStep /\ AntennaMode) =>
          LET d   == call'.distance
              tol == Tolerances(dscfg)
          IN  \A k \in 1..3 :
                  /\ (d[k] = tol[k] /\ \A m \in 1..3 : d[m] <= tol[m]) =>
                         /\ result'.kind = "dataset"
                         /\ RowsOf(dscfg') = RowsOf(dscfg) + 1
                  /\ d[k] > tol[k] =>
                         /\ result' = NoneVal
                         /\ RowsOf(dscfg') = RowsOf(dscfg)
      ]_vars

(***************************************************************************)
(* C9: BinNotFound is recoverable and free of side effects.  A processing   *)
(* call whose scan fails a tolerance check returns nothing and leaves the   *)
(* whole run state as it was, and a processing call with a scan within      *)
(* tolerance appends a row, whatever was skipped before.                    *)
(***************************************************************************)
C9_SkipLeavesRunUnchanged ==
    [][ScanStep =>
          /\ ~call'.within => (result' = NoneVal /\ dscfg' = dscfg)
          /\ call'.within =>
                 (result'.kind = "dataset" /\ RowsOf(dscfg') = RowsOf(dscfg) + 1)
      ]_vars

\* C9 for the runs in antenna mode alone
AntennaSkipLeavesRunUnchanged ==
    [][(ScanStep /\ AntennaMode) =>
          /\ ~call'.within => (result' = NoneVal /\ dscfg' = dscfg)
          /\ call'.within =>
                 (result'.kind = "dataset" /\ RowsOf(dscfg') = RowsOf(dscfg) + 1)
      ]_vars

(***************************************************************************)
(* C10: NoValidScan.  A processing call without a usable scan (no radar     *)
(* list, or None for this radar) returns nothing and leaves the run state   *)
(* as it was, in the idle and in the accumulating state.                    *)
(***************************************************************************)
C10_NoValidScanIsNoOp ==
    [][(call'.procstatus = 1 /\ call'.radar \in {"nolist", "none"}) =>
          (result' = NoneVal /\ dscfg' = dscfg)]_vars

\* a call with None for the radar, in a run that has accumulated 2 rows
C10_Witness ==
    /\ call.procstatus = 1
    /\ call.radar = "none"
    /\ dscfg.initialized = 1
    /\ RowsOf(dscfg) = 2
    /\ result = NoneVal

\* The row a call has just written to a field of the record
LastRow(cfg, f) == RecordOf(cfg).fields[f][RecordOf(cfg).nrays]

(***************************************************************************)
(* C11: FieldMissing.  On every processing call that passes the tolerance   *)
(* checks, the first of the run included, a configured field the scan lacks *)
(* does not abort the call: the row is appended, and the row of that field  *)
(* is all masked and at least as wide as the scan.                          *)
(***************************************************************************)
C11_FieldMissingAppendsMaskedRow ==
    [][(ScanStep /\ call'.within /\ call'.missing # {}) =>
          /\ result'.kind = "dataset"
          /\ RowsOf(dscfg') = RowsOf(dscfg) + 1
          /\ \A f \in call'.missing :
                 /\ Len(LastRow(dscfg', f)) >= call'.npulses
                 /\ AllMasked(LastRow(dscfg', f), 1, Len(LastRow(dscfg', f)))
      ]_vars

\* C11 for the calls of a run that already has its record
FieldMissingOnceAccumulating ==
    [][(ScanStep /\ call'.within /\ call'.missing # {} /\ dscfg.initialized = 1) =>
          /\ result'.kind = "dataset"
          /\ RowsOf(dscfg') = RowsOf(dscfg) + 1
          /\ \A f \in call'.missing :
                 /\ Len(LastRow(dscfg', f)) >= call'.npulses
                 /\ AllMasked(LastRow(dscfg', f), 1, Len(LastRow(dscfg', f)))
      ]_vars

(***************************************************************************)
(* C12: nearest-bin selection.  When the tolerance checks pass, the ray     *)
(* selected is the first ray with the least |azimuth - target azimuth| +    *)
(* |elevation - target elevation|, the bin selected is the first bin with   *)
(* the least |range - target range|, and the row appended holds the cells   *)
(* of exactly that ray and bin.                                             *)
(***************************************************************************)
C12_NearestBinSelected ==
    [][(call'.procstatus = 1 /\ selected' # << >>) =>
          /\ selected'[1] = call'.expected[1]
          /\ selected'[2] = call'.expected[2]
          /\ result'.kind = "dataset" =>
                 \A f \in AllFields : \A p \in 1..call'.npulses :
                     LastRow(dscfg', f)[p] = call'.supplied[f][p]
      ]_vars

\* ray 1 is the nearer in azimuth (0.3 deg against 1.0 deg) and ray 2 has the
\* least sum (1.0 deg against 1.4 deg): the row is the one of ray 2, bin 2
C12_Witness ==
    /\ Appended
    /\ call.distance = <<3, 0, 0>>
    /\ SubSeq(selected, 1, 4) = <<2, 2, 10, 0>>
    /\ LastRow(dscfg, "sPhh") = <<11221>>

(***************************************************************************)
(* C13 as claimed: for every appended row, the ray that was selected is     *)
(* within the azimuth tolerance and within the elevation tolerance.         *)
(***************************************************************************)
C13_SelectedRayWithinTolerance ==
    (Appended /\ selected # << >>) =>
        /\ selected[3] <= AziTolOf(dscfg)
        /\ selected[4] <= EleTolOf(dscfg)

(***************************************************************************)
(* C13 as amended: for every appended row, some ray of the scan is within   *)
(* the azimuth tolerance and some ray is within the elevation tolerance     *)
(* (not necessarily the same ray), and the ray selected is the first ray    *)
(* with the least sum of the two distances.                                 *)
(***************************************************************************)
C13_SomeRayWithinEachTolerance ==
    (Appended /\ selected # << >>) =>
        /\ call.distance[1] <= AziTolOf(dscfg)
        /\ call.distance[2] <= EleTolOf(dscfg)
        /\ selected[1] = call.expected[1]

\* a row was appended from a ray 1.1 deg off in azimuth (tolerance 1.0 deg),
\* in a scan with another ray 0.3 deg off
C13_Witness ==
    /\ Appended
    /\ call.distance[1] = 3
    /\ selected # << >>
    /\ selected[3] = 11

(***************************************************************************)
(* C14: lifecycle, idle state.  In the idle state a processing call whose   *)
(* lookup succeeds (the scan is within tolerance) makes the run             *)
(* accumulating and appends the first row in the same call, so the record   *)
(* has exactly one row; a processing call whose lookup fails leaves the run *)
(* idle and returns an empty result.                                        *)
(***************************************************************************)
C14_IdleTransition ==
    [][(ScanStep /\ dscfg.initialized = 0) =>
          /\ call'.within =>
                 /\ dscfg'.initialized = 1
                 /\ RowsOf(dscfg') = 1
                 /\ result'.kind = "dataset"
          /\ ~call'.within =>
                 /\ dscfg'.initialized = 0
                 /\ result' = NoneVal
      ]_vars

\* C14 for the runs in antenna mode whose scans have every configured field
IdleTransitionOfCompleteScans ==
    [][(ScanStep /\ dscfg.initialized = 0 /\ AntennaMode /\ call'.missing = {}) =>
          /\ call'.within =>
                 /\ dscfg'.initialized = 1
                 /\ RowsOf(dscfg') = 1
                 /\ result'.kind = "dataset"
          /\ ~call'.within =>
                 /\ dscfg'.initialized = 0
                 /\ result' = NoneVal
      ]_vars

\* Every array of the record that has one entry per row
RowArrays(rec) ==
    <<rec.time.data, rec.azimuth, rec.elevation, rec.gate_longitude,
      rec.gate_latitude, rec.gate_altitude>>
    \o [k \in DOMAIN FieldNames |-> rec.fields[FieldNames[k]]]

(***************************************************************************)
(* C15: initialization is one-shot.  Once the run is accumulating, no call  *)
(* makes the record anew: the run stays accumulating, the time origin of    *)
(* the record is the one it was created with, no per-row array gets         *)
(* shorter, and the times of the rows already there stay.                   *)
(***************************************************************************)
C15_InitializationOneShot ==
    [][dscfg.initialized = 1 =>
          /\ dscfg'.initialized = 1
          /\ RecordOf(dscfg').time.units = RecordOf(dscfg).time.units
          /\ RecordOf(dscfg').nrays >= RecordOf(dscfg).nrays
          /\ \A k \in DOMAIN RowArrays(RecordOf(dscfg)) :
                 Len(RowArrays(RecordOf(dscfg'))[k])
                     >= Len(RowArrays(RecordOf(dscfg))[k])
          /\ SubSeq(RecordOf(dscfg').time.data, 1, RecordOf(dscfg).nrays)
                 = RecordOf(dscfg).time.data]_vars

\* A second row was appended from a scan later than the one that made the
\* record: its time counts from the first scan's
C15_Witness ==
    /\ Appended
    /\ RecordOf(dscfg).nrays = 2
    /\ RecordOf(dscfg).time.data[1] = 0
    /\ RecordOf(dscfg).time.data[2] > 0

(***************************************************************************)
(* C16: the emission contract.  A finalize call on an accumulating run      *)
(* emits a dataset.  Every dataset emitted carries the whole accumulated    *)
(* record, the stored (lon, lat, alt) triple and the stored (az, el, r)     *)
(* triple; its completion flag is true when the call was a finalize call    *)
(* and false when it was a processing call.                                 *)
(***************************************************************************)
C16_EmissionContract ==
    /\ (call.procstatus = 2 /\ dscfg.initialized = 1) => result.kind = "dataset"
    /\ result.kind = "dataset" =>
           /\ call.procstatus \in {1, 2}
           /\ result.final = (call.procstatus = 2)
           /\ result.radar_out = RecordOf(dscfg)
           /\ result.radar_out.nrays = Len(appended)
           /\ result.point_coordinates_WGS84_lon_lat_alt
                  = dscfg.global_data.point_coordinates_WGS84_lon_lat_alt
           /\ Len(result.point_coordinates_WGS84_lon_lat_alt) = 3
           /\ result.antenna_coordinates_az_el_r
                  = dscfg.global_data.antenna_coordinates_az_el_r
           /\ Len(result.antenna_coordinates_az_el_r) = 3

\* A finalize call emitted a record of two rows
C16_Witness ==
    /\ call.procstatus = 2
    /\ result.kind = "dataset"
    /\ result.final
    /\ result.radar_out.nrays = 2
    /\ result.antenna_coordinates_az_el_r = <<100, 50, 5000>>

(***************************************************************************)
(* C17: finalize is idempotent.  A finalize call that comes right after a   *)
(* finalize call leaves the configuration dictionary of the run as it was   *)
(* and returns what the first one returned.                                 *)
(***************************************************************************)
C17_FinalizeIdempotent ==
    [][(call.procstatus = 2 /\ call'.procstatus = 2) =>
          /\ dscfg' = dscfg
          /\ result' = result]_vars

\* A finalize call came right after a finalize call, on a record of two rows
C17_Witness ==
    /\ again
    /\ call.procstatus = 2
    /\ result.kind = "dataset"
    /\ result.final
    /\ RecordOf(dscfg).nrays = 2

(***************************************************************************)
(* C18: the finalized state is terminal.  Once a finalize call has emitted  *)
(* the record of the run, the next call, whatever it is, leaves the record  *)
(* as it was emitted.                                                       *)
(***************************************************************************)
C18_FinalizedIsTerminal ==
    [][(call.procstatus = 2 /\ result.kind = "dataset") =>
          RecordOf(dscfg') = RecordOf(dscfg)]_vars

\* The fixed values of a run: the range bin of the record and the two stored
\* triples
FixedValues(cfg) ==
    <<RecordOf(cfg).range,
      cfg.global_data.point_coordinates_WGS84_lon_lat_alt,
      cfg.global_data.antenna_coordinates_az_el_r>>

(***************************************************************************)
(* C19: fixed values never change.  Once the record exists, every call      *)
(* leaves its single range bin, the stored (lon, lat, alt) triple and the   *)
(* stored (az, el, r) triple as they were, and every dataset emitted        *)
(* carries these same values, whatever the scan of the call.                *)
(***************************************************************************)
C19_FixedValuesNeverChange ==
    [][dscfg.initialized = 1 =>
          /\ Len(RecordOf(dscfg').range) = 1
          /\ FixedValues(dscfg') = FixedValues(dscfg)
          /\ result'.kind = "dataset" =>
                 <<result'.radar_out.range,
                   result'.point_coordinates_WGS84_lon_lat_alt,
                   result'.antenna_coordinates_az_el_r>> = FixedValues(dscfg)]_vars

\* A second row was appended from a scan whose sensor is not where the
\* sensor of the first scan was
C19_Witness ==
    /\ Appended
    /\ RecordOf(dscfg).nrays = 2
    /\ RecordOf(dscfg).gate_longitude[2][1]
           # dscfg.global_data.point_coordinates_WGS84_lon_lat_alt[1]

(***************************************************************************)
(* C20: after every successful append the three position grids have one    *)
(* row per row of the record and one column, and every entry is the         *)
(* coordinate of the point as stored in the emitted (lon, lat, alt) triple. *)
(***************************************************************************)
C20_GridsArePointCoordinates ==
    Appended =>
        LET rec == result.radar_out
            lla == result.point_coordinates_WGS84_lon_lat_alt
        IN  /\ Len(rec.gate_longitude) = rec.nrays
            /\ Len(rec.gate_latitude) = rec.nrays
            /\ Len(rec.gate_altitude) = rec.nrays
            /\ \A i \in 1..rec.nrays :
                   /\ rec.gate_longitude[i] = <<lla[1]>>
                   /\ rec.gate_latitude[i] = <<lla[2]>>
                   /\ rec.gate_altitude[i] = <<lla[3]>>

\* The rows of the record are the rows the successful calls appended, in the
\* order of the calls
RowsInCallOrder(rec) ==
    /\ rec.nrays = Len(appended)
    /\ Len(rec.time.data) = Len(appended)
    /\ \A k \in 1..Len(appended) : \A f \in AllFields :
           SubSeq(rec.fields[f][k], 1, appended[k].npulses)
               = SubSeq(appended[k].rows[f], 1, appended[k].npulses)

C22_OriginIsFirstTimestamp ==
    (dscfg.initialized = 1 /\ Len(appended) >= 1) =>
        /\ RecordOf(dscfg).time.units = appended[1].time
        /\ RecordOf(dscfg).time.data[1] = 0
        /\ \A k \in 1..Len(appended) :
               RecordOf(dscfg).time.data[k] = appended[k].time - appended[1].time

\* What the time axis holds: the origin is the whole second of the first
\* timestamp, and every time value counts from it
TimeCountsFromWholeSecond ==
    (dscfg.initialized = 1 /\ Len(appended) >= 1) =>
        /\ RecordOf(dscfg).time.units
               = appended[1].time - (appended[1].time % TicksPerSecond)
        /\ \A k \in 1..Len(appended) :
               RecordOf(dscfg).time.data[k]
                   = appended[k].time - RecordOf(dscfg).time.units

(***************************************************************************)
(* C23: the tolerances of the geographic mode.  A processing call of a run  *)
(* that gives its point as lon, lat, alt, with a scan within the azimuth,   *)
(* elevation and range tolerances (configured, or 0.5 deg, 0.5 deg, 50 m),  *)
(* completes and appends one row, as it does in antenna mode.               *)
(***************************************************************************)
C23_GeographicModeAppends ==
    [][(ScanStep /\ ~AntennaMode /\ call'.within /\ call'.missing = {}) =>
          /\ result'.kind = "dataset"
          /\ RowsOf(dscfg') = RowsOf(dscfg) + 1]_vars

\* The same of a run that gives its point as azimuth, elevation, range
AntennaModeAppends ==
    [][(ScanStep /\ AntennaMode /\ call'.within /\ call'.missing = {}) =>
          /\ result'.kind = "dataset"
          /\ RowsOf(dscfg') = RowsOf(dscfg) + 1]_vars

\* The configuration lacks a required entry of its point
Malformed(cfg) ==
    IF Get(cfg, "latlon", FALSE)
    THEN ~Has(cfg, "lon") \/ ~Has(cfg, "lat")
    ELSE ~Has(cfg, "rng") \/ ~Has(cfg, "azi") \/ ~Has(cfg, "ele")

(***************************************************************************)
(* C24: a malformed configuration is a setup error.  In a run whose         *)
(* configuration lacks a required entry of its point, the initializing call *)
(* raises, and no call other than the initializing call is the one that     *)
(* raises.                                                                  *)
(***************************************************************************)
C24_MalformedRaisedAtSetup ==
    Malformed(dscfg) =>
        /\ call.procstatus = 0 => result.kind = "raise"
        /\ result.kind = "raise" => call.procstatus = 0

\* What the calls of such a run do: the processing calls that hold a scan
\* raise KeyError, each of them, and no other call raises
MalformedRaisedWithScan ==
    (Malformed(dscfg) /\ call.procstatus # -1) =>
        (result = Raised("KeyError")
            <=> (call.procstatus = 1 /\ call.radar = "scan"))

\* The Doppler velocities and the Doppler frequencies of a record
DopplerAxes(rec) == <<rec.Doppler_velocity, rec.Doppler_frequency>>

\* The step leaves every Doppler axis the record tracks with one row per
\* entry of the time axis, each as wide as the record; the last row is the
\* row of the scan, masked beyond the width of the scan; the rows before
\* keep their cells and are masked in the columns the step added
AxesFollowTheFields ==
    \A a \in 1..2 :
        LET axis == DopplerAxes(RecordOf(dscfg'))[a]
            width == RecordOf(dscfg').npulses_max
        IN  ~IsNone(axis) =>
                /\ Len(axis.data) = Len(RecordOf(dscfg').time.data)
                /\ \A i \in 1..Len(axis.data) : Len(axis.data[i]) = width
                /\ \A p \in 1..width :
                       axis.data[Len(axis.data)][p] =
                           IF p <= call'.npulses THEN call'.axes[a].data[p]
                           ELSE Masked
                /\ dscfg.initialized = 1 =>
                       LET before == DopplerAxes(RecordOf(dscfg))[a].data
                       IN  \A i \in 1..Len(before) : \A p \in 1..width :
                               axis.data[i][p] =
                                   IF p <= Len(before[i]) THEN before[i][p]
                                   ELSE Masked

(***************************************************************************)
(* C25: the Doppler axes follow the rules of the fields.  After every       *)
(* successful append each Doppler axis the record tracks has as many rows   *)
(* as the time axis and the width of the record, a narrower new row is      *)
(* masked in its tail, and on growth the earlier rows keep their values and *)
(* are masked in the new columns.                                           *)
(***************************************************************************)
C25_DopplerAxesFollowFields ==
    [][(call'.procstatus = 1 /\ result'.kind = "dataset") =>
          AxesFollowTheFields]_vars

\* The same as long as no call of the run has raised while it appended
DopplerAxesOfUnfailedRuns ==
    [][(/\ call'.procstatus = 1
        /\ result'.kind = "dataset"
        /\ \A i \in DOMAIN appended' : appended'[i].ok) =>
          AxesFollowTheFields]_vars

\* Every per-row array of the record, the tracked Doppler axes included, has
\* one row per row of the record
RowCountsAgree(rec) ==
    /\ \A k \in DOMAIN RowArrays(rec) : Len(RowArrays(rec)[k]) = rec.nrays
    /\ \A a \in 1..2 :
           ~IsNone(DopplerAxes(rec)[a]) => Len(DopplerAxes(rec)[a].data) = rec.nrays

(***************************************************************************)
(* C30: a processing call is atomic with respect to the record.  It either  *)
(* appends one complete row (to the time axis, the angles, every field and  *)
(* every tracked Doppler axis) and returns the record, or it leaves the     *)
(* configuration dictionary and its record exactly as they were.            *)
(***************************************************************************)
C30_ProcessingCallIsAtomic ==
    [][call'.procstatus = 1 =>
          \/ /\ result'.kind = "dataset"
             /\ RowsOf(dscfg') = RowsOf(dscfg) + 1
             /\ RowCountsAgree(RecordOf(dscfg'))
          \/ dscfg' = dscfg]_vars

\* The same of the calls whose scan has every Doppler axis the record tracks
AtomicWithTrackedAxes ==
    [][(/\ call'.procstatus = 1
        /\ dscfg.initialized = 1
        /\ RowCountsAgree(RecordOf(dscfg))
        /\ call'.within =>
               \A a \in 1..2 :
                   ~IsNone(DopplerAxes(RecordOf(dscfg))[a])
                       => ~IsNone(call'.axes[a])) =>
          \/ /\ result'.kind = "dataset"
             /\ RowsOf(dscfg') = RowsOf(dscfg) + 1
             /\ RowCountsAgree(RecordOf(dscfg'))
          \/ dscfg' = dscfg]_vars

(***************************************************************************)
(* C26: no residual data.  The first successful processing call of an idle  *)
(* run leaves a record of exactly one row, made of the scan of that call    *)
(* only: its width is the pulse count of the scan, the row of every field   *)
(* is the cells of the bin of the point, its time counts from the whole     *)
(* second of the scan's ray, it tracks the Doppler axes the scan has, and   *)
(* the stored coordinates are those of the call; whatever global_data held. *)
(***************************************************************************)
C26_NoResidualData ==
    [][(dscfg.initialized = 0 /\ call'.procstatus = 1 /\ result'.kind = "dataset") =>
          LET rec == RecordOf(dscfg')
          IN  /\ dscfg'.initialized = 1
              /\ rec.nrays = 1
              /\ RowCountsAgree(rec)
              /\ rec.npulses_max = call'.npulses
              /\ \A f \in AllFields : rec.fields[f] = <<call'.supplied[f]>>
              /\ rec.time.units + rec.time.data[1] = selected'[5]
              /\ rec.time.data[1] < TicksPerSecond
              /\ \A a \in 1..2 :
                     IF IsNone(call'.axes[a])
                     THEN IsNone(DopplerAxes(rec)[a])
                     ELSE DopplerAxes(rec)[a].data = <<call'.axes[a].data>>
              /\ rec.longitude = 0
              /\ dscfg'.global_data.antenna_coordinates_az_el_r = <<100, 50, 5000>>
              /\ dscfg'.global_data.point_coordinates_WGS84_lon_lat_alt
                     = <<rec.gate_longitude[1][1], rec.gate_latitude[1][1],
                         rec.gate_altitude[1][1]>>]_vars

\* The one-row record of a run that started on a two-row record of width
\* MaxPulses: the scan of the first successful call had one pulse
C26_Witness ==
    /\ Appended
    /\ Len(appended) = 1
    /\ RecordOf(dscfg).nrays = 1
    /\ RecordOf(dscfg).npulses_max = 1
    /\ RecordOf(dscfg).time.data = <<0>>

C29_FinalProductsAtFinalizeOnly ==
    (/\ product # NoProduct
     /\ product.prdcfg.type \in TimeDopplerTypes
     /\ Get(product.prdcfg, "plot_type", "final") = "final") =>
        /\ ~result.final => IsNone(product.files)
        /\ ~IsNone(product.files) => (result.final /\ call.procstatus = 2)

\* The generator was given the dataset of a processing call, of two rows,
\* for a time-Doppler product of a field of the dataset with plot_type left
\* out, and made nothing
C29_Witness ==
    /\ product # NoProduct
    /\ product.prdcfg = [type |-> "TIME_DOPPLER", voltype |-> "sPhh"]
    /\ result.kind = "dataset"
    /\ ~result.final
    /\ result.radar_out.nrays = 2
    /\ IsNone(product.files)

(***************************************************************************)
(* C31: the fields of the record are the configured fields, from the call   *)
(* that creates the record on and after every later call.  A configured     *)
(* field a later scan lacks stays in the record and gets an all-masked row; *)
(* a field of a scan that is not configured is never added.                 *)
(***************************************************************************)
C31_FieldSetIsFixed ==
    dscfg.initialized = 1 =>
        /\ DOMAIN RecordOf(dscfg).fields =
               {dscfg.datatype[k] : k \in DOMAIN dscfg.datatype}
        /\ (Appended /\ call.missing # {}) =>
               \A f \in call.missing :
                   /\ Len(RecordOf(dscfg).fields[f]) = RowsOf(dscfg)
                   /\ AllMasked(LastRow(dscfg, f), 1, Len(LastRow(dscfg, f)))

\* The second row of a record of the one configured field came from a scan
\* that has only the other field
C31_Witness ==
    /\ Appended
    /\ dscfg.datatype = <<"sPhh">>
    /\ call.missing = {"sPhh"}
    /\ RowsOf(dscfg) = 2
    /\ DOMAIN RecordOf(dscfg).fields = {"sPhh"}
    /\ LastRow(dscfg, "sPhh") = <<Masked>>

\* No call of the run so far has appended a row and returned
NoSuccessfulAppend == \A i \in DOMAIN appended : ~appended[i].ok

(***************************************************************************)
(* C32: a finalize call in a run that has had no successful append finds    *)
(* the run idle, returns None, None, creates no record and leaves the run   *)
(* idle; a call with procstatus 0 returns None, None and leaves the         *)
(* configuration dictionary as it was.                                      *)
(***************************************************************************)
C32_IdleFinalizeAndSetupAreNoOps ==
    [][/\ call'.procstatus = 0 => (result' = NoneVal /\ dscfg' = dscfg)
       /\ (call'.procstatus = 2 /\ NoSuccessfulAppend) =>
              /\ dscfg.initialized = 0
              /\ result' = NoneVal
              /\ dscfg' = dscfg
              /\ IsNone(dscfg'.global_data)
      ]_vars

\* A finalize call returned None in a run whose only scan within tolerance
\* raised before the record was made
C32_Witness ==
    /\ call.procstatus = 2
    /\ accepted = 1
    /\ appended = << >>
    /\ dscfg.initialized = 0
    /\ IsNone(dscfg.global_data)
    /\ result = NoneVal

(***************************************************************************)
(* C33: the record a finalize call emits is the record as the last          *)
(* successful processing call returned it: no row, width or coordinate      *)
(* differs, whatever calls came in between.                                 *)
(***************************************************************************)
C33_FinalizeEmitsLastReturned ==
    (call.procstatus = 2 /\ result.kind = "dataset") =>
        result.radar_out = returned

\* C33 as far as finalize goes: the record a finalize call emits is the
\* record of the run as the call found it, which the call leaves as it was
FinalizeEmitsTheRecordAsFound ==
    [][(call'.procstatus = 2 /\ dscfg.initialized = 1) =>
          /\ result'.kind = "dataset"
          /\ result'.radar_out = RecordOf(dscfg)
          /\ dscfg' = dscfg]_vars

\* C33 for the runs in which no call raised once it had started to append
FinalizeOfUnfailedRuns ==
    (\A i \in DOMAIN appended : appended[i].ok) => C33_FinalizeEmitsLastReturned

(***************************************************************************)
(* C34: sweep bookkeeping.  After every successful append the one sweep of  *)
(* the record covers all its rows: rays_per_sweep[0] is the number of rows  *)
(* and sweep_end_ray_index[0] is that number minus 1; and a record always   *)
(* has one range gate and one sweep.                                        *)
(***************************************************************************)
C34_SweepCoversAllRows ==
    /\ Appended =>
           LET rec == result.radar_out
           IN  /\ rec.nrays = Len(rec.time.data)
               /\ \A f \in DOMAIN rec.fields : Len(rec.fields[f]) = rec.nrays
               /\ rec.rays_per_sweep = <<rec.nrays>>
               /\ rec.sweep_end_ray_index = <<rec.nrays - 1>>
    /\ dscfg.initialized = 1 =>
           LET rec == RecordOf(dscfg)
           IN  /\ rec.ngates = 1
               /\ Len(rec.range) = 1
               /\ rec.nsweeps = 1
               /\ Len(rec.rays_per_sweep) = 1
               /\ Len(rec.sweep_end_ray_index) = 1
               /\ Len(rec.fixed_angle) = 1

\* The third row was appended: the sweep has three rays and ends at ray 2
C34_Witness ==
    /\ Appended
    /\ result.radar_out.nrays = 3
    /\ Len(result.radar_out.time.data) = 3
    /\ result.radar_out.rays_per_sweep = <<3>>
    /\ result.radar_out.sweep_end_ray_index = <<2>>
    /\ result.radar_out.ngates = 1
    /\ result.radar_out.nsweeps = 1

(***************************************************************************)
(* C35: the azimuth and the elevation recorded for a row are the angles of  *)
(* the point as resolved, not those of the ray selected: in antenna mode    *)
(* every entry of the azimuth axis of the record is the configured azimuth  *)
(* and every entry of the elevation axis the configured elevation.          *)
(***************************************************************************)
C35_RowAnglesAreTargetAngles ==
    (dscfg.initialized = 1 /\ AntennaMode) =>
        LET rec == RecordOf(dscfg)
        IN  /\ Len(rec.azimuth) = rec.nrays
            /\ Len(rec.elevation) = rec.nrays
            /\ \A i \in 1..rec.nrays :
                   /\ rec.azimuth[i] = dscfg.azi
                   /\ rec.elevation[i] = dscfg.ele
            /\ dscfg.global_data.antenna_coordinates_az_el_r
                   = <<dscfg.azi, dscfg.ele, dscfg.rng>>

\* The second row came from a ray 0.3 deg off the point in azimuth, and the
\* record has the azimuth of the point for both its rows
C35_Witness ==
    /\ Appended
    /\ AntennaMode
    /\ selected[3] = 3
    /\ RecordOf(dscfg).nrays = 2
    /\ RecordOf(dscfg).azimuth = <<100, 100>>
    /\ RecordOf(dscfg).elevation = <<50, 50>>

(***************************************************************************)
(* C36: the azimuth distance is the absolute difference of the two angle    *)
(* values, with no wrap-around at 360 deg.  A scan none of whose rays is    *)
(* within the azimuth tolerance by that difference is rejected (the call    *)
(* returns None, None and leaves the run as it was), also when a ray is     *)
(* within the tolerance round the circle; a scan within the three           *)
(* tolerances by the plain differences is accepted.                         *)
(***************************************************************************)
C36_AzimuthDistanceDoesNotWrap ==
    [][(ScanStep /\ AntennaMode) =>
          /\ call'.distance[1] > AziTolOf(dscfg) =>
                 /\ result' = NoneVal
                 /\ dscfg' = dscfg
          /\ call'.within =>
                 /\ result'.kind = "dataset"
                 /\ RowsOf(dscfg') = RowsOf(dscfg) + 1
      ]_vars

\* A scan whose rays are at 359.7 and 359.0 deg was rejected for the point
\* at 0.2 deg with a tolerance of 1 deg, once the record had a row: the
\* nearest ray is 0.5 deg away round the circle, 358.8 deg by the difference
C36_Witness ==
    /\ call.procstatus = 1
    /\ dscfg.azi = 2
    /\ call.distance # << >>
    /\ call.distance[1] = 3588
    /\ call.circular = 5
    /\ call.circular <= AziTolOf(dscfg)
    /\ ~call.within
    /\ result = NoneVal
    /\ RowsOf(dscfg) = 1

\* The product types the generator has a branch for
SupportedTypes == RangeDopplerTypes \cup TimeDopplerTypes \cup DopplerTypes

\* The field of the product is not in the record of the dataset, or the
\* type of the product is not supported
FieldOrTypeRejected ==
    \/ product.prdcfg.voltype \notin DOMAIN result.radar_out.fields
    \/ product.prdcfg.type \notin SupportedTypes

\* A time-Doppler product of plot_type 'final' of a dataset that is not final
NotFinalYet ==
    /\ product.prdcfg.type \in TimeDopplerTypes
    /\ Get(product.prdcfg, "plot_type", "final") = "final"
    /\ ~result.final

\* No ray of the record is within 1 deg of the angles of the product
RayOutOfCoverage ==
    LET rec == result.radar_out
    IN  ~\E i \in 1..rec.nrays :
            /\ Abs(rec.azimuth[i] - product.prdcfg.azi) <= 10
            /\ Abs(rec.elevation[i] - product.prdcfg.ele) <= 10

\* No bin of the record is within 50 m of the range of the product
BinOutOfCoverage ==
    \A j \in DOMAIN result.radar_out.range :
        Abs(result.radar_out.range[j] - product.prdcfg.rng) > 50

\* The product names its ray, or its bin, by a position the record does not
\* cover
OutOfCoverage ==
    \/ /\ product.prdcfg.type \in RangeDopplerTypes
       /\ Has(product.prdcfg, "azi") /\ Has(product.prdcfg, "ele")
       /\ RayOutOfCoverage
    \/ /\ product.prdcfg.type \in DopplerTypes
       /\ Has(product.prdcfg, "azi") /\ Has(product.prdcfg, "ele")
       /\ Has(product.prdcfg, "rng")
       /\ (RayOutOfCoverage \/ BinOutOfCoverage)

(***************************************************************************)
(* C37: the product generator returns None when the field of the product    *)
(* is not in the record of the dataset or the type of the product is not    *)
(* supported, and the list of the file names in every other case.           *)
(***************************************************************************)
C37_NoneIffFieldOrTypeRejected ==
    product # NoProduct =>
        IF FieldOrTypeRejected
        THEN IsNone(product.files)
        ELSE product.files.kind = "files"

(***************************************************************************)
(* C37 as amended: the product generator returns None when the field of     *)
(* the product is not in the record or the type is not supported, when a    *)
(* time-Doppler product of plot_type 'final' is asked of a dataset that is  *)
(* not final, and when the ray or the bin the product names by angle or     *)
(* range is out of the coverage of the record; in every other case it       *)
(* returns the list of the file names, of the name stem of the type.        *)
(***************************************************************************)
C37_NoneIffRejectedNotFinalOrUncovered ==
    product # NoProduct =>
        IF FieldOrTypeRejected \/ NotFinalYet \/ OutOfCoverage
        THEN IsNone(product.files)
        ELSE /\ product.files.kind = "files"
             /\ product.files.prdtype = prdtype_of(product.prdcfg.type)

\* A Doppler product of a field of the record, of a bin 4 km past the bin of
\* the record, got None from a dataset of two rows
C37_Witness ==
    /\ product # NoProduct
    /\ product.prdcfg = [type |-> "DOPPLER", voltype |-> "sPhh",
                         azi |-> 100, ele |-> 50, rng |-> 9000]
    /\ result.radar_out.nrays = 2
    /\ ~FieldOrTypeRejected
    /\ IsNone(product.files)

(***************************************************************************)
(* C38: the processors of one scan keep nothing across calls.  A call with  *)
(* procstatus 0 or 2, or without a valid scan, returns None, None; a        *)
(* dataset is returned by a call with procstatus 1 and a scan only; and no  *)
(* call changes the configuration dictionary.                               *)
(***************************************************************************)
C38_ScanProcessorsAreStateless ==
    [][/\ dscfg' = dscfg
       /\ (call'.procstatus # 1 \/ call'.radar # "scan") => result' = NoneVal
       /\ result'.kind = "dataset" =>
              (call'.procstatus = 1 /\ call'.radar = "scan")
      ]_vars

\* A finalize call returned None and the dictionary is as the run began
ScanFinalizeReturnsNone ==
    /\ call.procstatus = 2
    /\ result = NoneVal
    /\ dscfg = NewRun([datatype |-> FieldNames, filter_width |-> 62300])

\* A call with a scan returned a dataset whose first field has the cells
\* the filter masks, and the dictionary is as the run began
C38_Witness ==
    /\ call.procstatus = 1
    /\ call.radar = "scan"
    /\ dscfg = NewRun([datatype |-> FieldNames, filter_width |-> 62300])
    /\ result.kind = "dataset"
    /\ "sPhh" \in DOMAIN result.radar_out.fields
    /\ result.radar_out.fields["sPhh"][1][1][1] = Masked

=============================================================================
